---------------------------- MODULE Spec2Model ----------------------------
(***************************************************************************)
(* Supervision core of smartseek: the circuit breaker and its two          *)
(* registries, the retry composer, the heartbeat monitor, the worker       *)
(* manager, the recovery engine, the supervisor, the bounded queues and    *)
(* the timeout guard,                                                      *)
(* modelled as state machines over one millisecond-free clock.             *)
(*                                                                         *)
(* Every component has its own specification (SpecBreaker, SpecRegistry,   *)
(* SpecHeartbeat, SpecWorker, SpecCrashLoop, SpecRecovery, SpecLifecycle,  *)
(* SpecSupervision, SpecQueue, SpecTimeout); the variables of the other    *)
(* components stay                                                         *)
(* at their constructed values.                                            *)
(***************************************************************************)
EXTENDS Integers, Sequences, FiniteSets, TLC

(***************************************************************************)
(* Bounds of the model.                                                    *)
(***************************************************************************)
\* Date.now() runs over 1..MaxTime (it is never 0, so a timestamp is truthy).
MaxTime == 4
\* thresholds of a breaker are drawn from 1..MaxThreshold
MaxThreshold == 2
\* resetTimeoutMs of a breaker is drawn from 1..MaxResetTimeout
MaxResetTimeout == 2
\* lifetime totals of a breaker (totalCalls) stay within MaxCalls
MaxCalls == 4
\* wrapped operations in flight at the same time
MaxInFlight == 2
\* maxAttempts of retryAsync in the model (the default is 3)
MaxAttempts == 2
\* outcomes recorded on all the breakers of the two registries together
MaxRegistryCalls == 2
\* timeoutMs of a heartbeat monitor is drawn from 1..MaxTimeoutMs
MaxTimeoutMs == 2
\* missedThreshold of a heartbeat monitor is drawn from 1..MaxMissedThreshold
MaxMissedThreshold == 2
\* heartbeats a monitor receives (totalReceived)
MaxHeartbeats == 2
\* worker processes a WorkerManager forks
MaxWorkers == 2
\* heartbeats the monitor of a WorkerManager receives
MaxWorkerHeartbeats == 1
\* decide() is called while Date.now() is at most MaxRecoveryTime (ms)
MaxRecoveryTime == 600001

\* JavaScript null for the numeric fields (timestamps, handles, pids)
Null == 0 - 1

VARIABLES
    now,            \* Date.now()
    \* ---- one CircuitBreaker and the calls made through execute() ----
    cb,             \* the breaker's fields and config
    cbInFlight,     \* wrapped operations invoked by execute() and not settled
    cbOutcome,      \* what the last call on the breaker returned or threw
    cbFailRun,      \* history: failures recorded since the last success / (re)entry of CLOSED
    cbProbeRun,     \* history: successes recorded since the breaker entered HALF_OPEN
    \* ---- the two breaker maps and the calls made through them ----
    circuitRegistry,    \* circuit-breaker.ts: const circuitRegistry (name -> breaker)
    circuitBreakers,    \* retry-with-circuit.ts: const circuitBreakers (name -> breaker)
    regInFlight,        \* per name: operations invoked by execute() on the registry's breaker
    rcCalls,            \* resilientCall()s past admission: slot -> call
    rcOutcome,          \* what the last call through either map returned or threw
    \* ---- one HeartbeatMonitor ----
    hb,             \* the monitor's fields and config
    hbFired,        \* the callbacks (onHeartbeat, onMissed, onDead) the last step invoked
    hbDeadRun,      \* history: onDead invocations since the last heartbeat, reset() or start()
    hbLastArrival,  \* history: when the latest heartbeat arrived (Null: none since reset())
    \* ---- one WorkerManager (its heartbeatMonitor is hb) ----
    wm,             \* the manager's fields
    procs,          \* the child processes forked so far: pid -> process
    timers,         \* pending restart timers (setTimeout of scheduleRestart)
    stops,          \* stop() calls whose shutdown timer or await is pending
    emitted,        \* events the manager emitted in the last step, in order
    stopRequested,  \* history: stop() was called and start() has not been since
    \* ---- one AIRecovery and the calls of decide() ----
    ai,             \* the engine's config and failure history
    aiContext,      \* the context the last decide() was given
    aiDecision,     \* the decision the last decide() returned
    \* ---- one Supervisor (its workerManager is wm) ----
    sup,            \* the supervisor's fields
    supPending,     \* the start() and stop() calls of the supervisor that await the manager
    supEmitted,     \* events the supervisor emitted in the last step, in order
    supLastCall,    \* history: the last method called on the supervisor
    supFailed,      \* history: the supervisor has emitted 'failed'
    \* ---- one bounded queue (plain, asynchronous or priority) ----
    bq,             \* the queue's fields, config and waiters
    bqOut,          \* what the last call on the queue returned, threw and called back
    bqWater,        \* history: the water-mark callback invoked last ("none" at first)
    \* ---- one call of withTimeout() ----
    tw,             \* the promise it is given, its opts and its locals
    twOutcome,      \* what the call returned or threw ("pending" until then)
    twCalls         \* history: invocations of its callbacks, exceptions its timer let escape

cbVars == <<cb, cbInFlight, cbOutcome, cbFailRun, cbProbeRun>>
regVars == <<circuitRegistry, circuitBreakers, regInFlight, rcCalls, rcOutcome>>

hbVars == <<hb, hbFired, hbDeadRun, hbLastArrival>>

wmVars == <<wm, procs, timers, stops, emitted, stopRequested>>

aiVars == <<ai, aiContext, aiDecision>>

supVars == <<sup, supPending, supEmitted, supLastCall, supFailed>>

bqVars == <<bq, bqOut, bqWater>>

twVars == <<tw, twOutcome, twCalls>>

vars == <<now, cbVars, regVars, hbVars, wmVars, aiVars, supVars, bqVars, twVars>>

\* what the operations of one component leave alone
exceptBreaker == <<regVars, hbVars, wmVars, aiVars, supVars, bqVars, twVars>>
exceptRegistry == <<cbVars, hbVars, wmVars, aiVars, supVars, bqVars, twVars>>
exceptHeartbeat == <<cbVars, regVars, wmVars, aiVars, supVars, bqVars, twVars>>
exceptWorker ==
    <<cbVars, regVars, aiVars, sup, supPending, supLastCall, supFailed, bqVars, twVars>>
exceptRecovery == <<cbVars, regVars, hbVars, wmVars, supVars, bqVars, twVars>>
exceptSupervisor == <<cbVars, regVars, bqVars, twVars>>
exceptQueue == <<now, cbVars, regVars, hbVars, wmVars, aiVars, supVars, twVars>>
exceptTimeout == <<cbVars, regVars, hbVars, wmVars, aiVars, supVars, bqVars>>

(***************************************************************************)
(* The clock.                                                              *)
(***************************************************************************)
\* no callback fired
NoneFired == [heartbeat |-> FALSE, missed |-> FALSE, dead |-> FALSE]

\* a pending timer whose callback can run now: the monitor's setInterval,
\* a startup timeout, a restart timer (it needs a pid of the model to fork),
\* the shutdown timer of a stop(), the timer of withTimeout()
TimerDue ==
    \/ tw.timeoutId # Null /\ tw.timeoutId <= now
    \/ hb.checkTimer # Null /\ hb.checkTimer <= now
    \/ \E p \in DOMAIN procs : procs[p].startupTimer # Null /\ procs[p].startupTimer <= now
    \/ \E x \in timers :
          /\ x.due <= now
          /\ Cardinality({p \in DOMAIN procs : procs[p].status = "unborn"})
                > Cardinality({y \in stops : y.awaiting /\ y.restart})
    \/ \E x \in stops : x.timer /\ x.due <= now

\* time passes once the timers that are due have run; what the last step
\* emitted or called back is over
Tick ==
    /\ now < MaxTime
    /\ ~TimerDue
    /\ now' = now + 1
    /\ emitted' = <<>>
    /\ supEmitted' = <<>>
    /\ hbFired' = NoneFired
    /\ UNCHANGED <<cbVars, regVars, aiVars, hb, hbDeadRun, hbLastArrival>>
    /\ UNCHANGED <<sup, supPending, supLastCall, supFailed, bqVars, twVars>>
    /\ UNCHANGED <<wm, procs, timers, stops, stopRequested>>

(***************************************************************************)
(* CircuitBreaker (src/src/resilience/circuit-breaker.ts)                  *)
(***************************************************************************)
CircuitBreakerState == {"CLOSED", "OPEN", "HALF_OPEN"}

\* new CircuitBreaker(config): the field initialisers and the constructor
CircuitBreaker(config) ==
    [ state |-> "CLOSED",
      failures |-> 0,
      successes |-> 0,
      lastFailureTime |-> Null,
      lastSuccessTime |-> Null,
      totalCalls |-> 0,
      totalFailures |-> 0,
      totalSuccesses |-> 0,
      config |-> config ]

\* the configurations the model draws a breaker's config from
BreakerConfigs ==
    [ failureThreshold : 1..MaxThreshold,
      resetTimeoutMs : 1..MaxResetTimeout,
      successThreshold : 1..MaxThreshold ]

\* private transition(newState): no-op on the same state, else the counters
\* are reset according to the state entered
transition(b, newState) ==
    IF b.state = newState THEN b
    ELSE IF newState = "CLOSED"
         THEN [b EXCEPT !.state = newState, !.failures = 0, !.successes = 0]
         ELSE [b EXCEPT !.state = newState, !.successes = 0]

\* resetTimeoutElapsed with the comparison off by one (> for >=)
resetTimeoutElapsed_strict(b, t) ==
    IF b.lastFailureTime = Null \/ b.lastFailureTime = 0
    THEN TRUE
    ELSE t - b.lastFailureTime > b.config.resetTimeoutMs

\* time since the last failure as isAllowed() computes it; TRUE stands for
\* "at least resetTimeoutMs" (Infinity when lastFailureTime is falsy)
resetTimeoutElapsed(b, t) ==
    IF b.lastFailureTime = Null \/ b.lastFailureTime = 0
    THEN TRUE
    ELSE t - b.lastFailureTime >= b.config.resetTimeoutMs

\* isAllowed(): the admission decision and the breaker after the check
isAllowed(b, t) ==
    IF b.state = "CLOSED" THEN [allowed |-> TRUE, cb |-> b]
    ELSE IF b.state = "OPEN"
         THEN IF resetTimeoutElapsed(b, t)
              THEN [allowed |-> TRUE, cb |-> transition(b, "HALF_OPEN")]
              ELSE [allowed |-> FALSE, cb |-> b]
         ELSE [allowed |-> TRUE, cb |-> b]

\* recordSuccess that closes the circuit one success late (> for >=)
recordSuccess_late(b, t) ==
    LET c == [b EXCEPT !.totalCalls = @ + 1,
                       !.totalSuccesses = @ + 1,
                       !.lastSuccessTime = t]
    IN  IF c.state = "HALF_OPEN"
        THEN LET d == [c EXCEPT !.successes = @ + 1]
             IN  IF d.successes > d.config.successThreshold
                 THEN transition(d, "CLOSED")
                 ELSE d
        ELSE IF c.state = "CLOSED"
             THEN [c EXCEPT !.failures = 0]
             ELSE c

\* recordSuccess()
recordSuccess(b, t) ==
    LET c == [b EXCEPT !.totalCalls = @ + 1,
                       !.totalSuccesses = @ + 1,
                       !.lastSuccessTime = t]
    IN  IF c.state = "HALF_OPEN"
        THEN LET d == [c EXCEPT !.successes = @ + 1]
             IN  IF d.successes >= d.config.successThreshold
                 THEN transition(d, "CLOSED")
                 ELSE d
        ELSE IF c.state = "CLOSED"
             THEN [c EXCEPT !.failures = 0]
             ELSE c

\* recordFailure that opens the circuit one failure late (> for >=)
recordFailure_late(b, t) ==
    LET c == [b EXCEPT !.totalCalls = @ + 1,
                       !.totalFailures = @ + 1,
                       !.lastFailureTime = t]
    IN  IF c.state = "HALF_OPEN"
        THEN transition(c, "OPEN")
        ELSE IF c.state = "CLOSED"
             THEN LET d == [c EXCEPT !.failures = @ + 1]
                  IN  IF d.failures > d.config.failureThreshold
                      THEN transition(d, "OPEN")
                      ELSE d
             ELSE c

\* recordFailure()
recordFailure(b, t) ==
    LET c == [b EXCEPT !.totalCalls = @ + 1,
                       !.totalFailures = @ + 1,
                       !.lastFailureTime = t]
    IN  IF c.state = "HALF_OPEN"
        THEN transition(c, "OPEN")
        ELSE IF c.state = "CLOSED"
             THEN LET d == [c EXCEPT !.failures = @ + 1]
                  IN  IF d.failures >= d.config.failureThreshold
                      THEN transition(d, "OPEN")
                      ELSE d
             ELSE c

\* forceState(state)
forceState(b, s) == transition(b, s)

\* reset()
CircuitBreaker_reset(b) ==
    transition([b EXCEPT !.failures = 0, !.successes = 0], "CLOSED")

(***************************************************************************)
(* History of one breaker, kept next to it for the statements about        *)
(* "consecutive" failures and successes "since it entered half-open".      *)
(***************************************************************************)
\* failures recorded since the last recorded success or since the breaker
\* last entered CLOSED
FailRunAfter(old, new, run, op) ==
    IF op = "failure" THEN run + 1
    ELSE IF op = "success" THEN 0
    ELSE IF old.state # "CLOSED" /\ new.state = "CLOSED" THEN 0
    ELSE IF op = "reset" THEN 0
    ELSE run

\* successes recorded in HALF_OPEN since the breaker entered it
ProbeRunAfter(old, new, run, op) ==
    IF old.state # "HALF_OPEN" /\ new.state = "HALF_OPEN" THEN 0
    ELSE IF op = "success" /\ old.state = "HALF_OPEN" THEN run + 1
    ELSE run

\* the breaker becomes b2 through operation op
BreakerStep(b2, op) ==
    /\ cb' = b2
    /\ cbFailRun' = FailRunAfter(cb, b2, cbFailRun, op)
    /\ cbProbeRun' = ProbeRunAfter(cb, b2, cbProbeRun, op)

(***************************************************************************)
(* Operations on the breaker.                                              *)
(***************************************************************************)
\* a caller asks isAllowed()
IsAllowedCall ==
    /\ BreakerStep(isAllowed(cb, now).cb, "check")
    /\ cbOutcome' = IF isAllowed(cb, now).allowed THEN "allowed" ELSE "denied"
    /\ UNCHANGED <<now, cbInFlight>>
    /\ UNCHANGED exceptBreaker

\* execute(fn) up to the await: admission, then fn() is invoked
ExecuteBegin ==
    /\ cbInFlight < MaxInFlight
    /\ cb.totalCalls + cbInFlight < MaxCalls
    /\ LET r == isAllowed(cb, now)
       IN  /\ BreakerStep(r.cb, "check")
           /\ IF r.allowed
              THEN /\ cbInFlight' = cbInFlight + 1
                   /\ cbOutcome' = "invoked"
              ELSE /\ cbOutcome' = "CircuitBreakerOpenError"
                   /\ UNCHANGED cbInFlight
    /\ UNCHANGED now
    /\ UNCHANGED exceptBreaker

\* execute(fn): fn() resolved
ExecuteResolve ==
    /\ cbInFlight > 0
    /\ BreakerStep(recordSuccess(cb, now), "success")
    /\ cbInFlight' = cbInFlight - 1
    /\ cbOutcome' = "result"
    /\ UNCHANGED now
    /\ UNCHANGED exceptBreaker

\* execute(fn): fn() rejected
ExecuteReject ==
    /\ cbInFlight > 0
    /\ BreakerStep(recordFailure(cb, now), "failure")
    /\ cbInFlight' = cbInFlight - 1
    /\ cbOutcome' = "error"
    /\ UNCHANGED now
    /\ UNCHANGED exceptBreaker

\* a caller records an outcome itself (as resilientCall does)
RecordSuccessCall ==
    /\ cb.totalCalls + cbInFlight < MaxCalls
    /\ BreakerStep(recordSuccess(cb, now), "success")
    /\ cbOutcome' = "recorded"
    /\ UNCHANGED <<now, cbInFlight>>
    /\ UNCHANGED exceptBreaker

RecordFailureCall ==
    /\ cb.totalCalls + cbInFlight < MaxCalls
    /\ BreakerStep(recordFailure(cb, now), "failure")
    /\ cbOutcome' = "recorded"
    /\ UNCHANGED <<now, cbInFlight>>
    /\ UNCHANGED exceptBreaker

\* manual overrides
ForceStateCall ==
    /\ \E s \in CircuitBreakerState :
          /\ s # cb.state
          /\ BreakerStep(forceState(cb, s), "force")
    /\ cbOutcome' = "forced"
    /\ UNCHANGED <<now, cbInFlight>>
    /\ UNCHANGED exceptBreaker

ResetCall ==
    /\ cb.state # "CLOSED" \/ cb.failures # 0 \/ cb.successes # 0
    /\ BreakerStep(CircuitBreaker_reset(cb), "reset")
    /\ cbOutcome' = "reset"
    /\ UNCHANGED <<now, cbInFlight>>
    /\ UNCHANGED exceptBreaker

(***************************************************************************)
(* Statements about one breaker.                                           *)
(***************************************************************************)
\* a step that records a failure / a success (the lifetime totals count it)
FailureRecorded == cb'.totalFailures = cb.totalFailures + 1
SuccessRecorded == cb'.totalSuccesses = cb.totalSuccesses + 1
\* a step that asks for admission: isAllowed() itself or through execute()
AdmissionCheck == IsAllowedCall \/ ExecuteBegin

\* C3: in CLOSED the run of failures since the last success stays below
\* failureThreshold; a failure recorded in CLOSED opens the circuit exactly
\* when it is the failureThreshold-th of that run; a success recorded in
\* CLOSED keeps it closed and zeroes the consecutive-failure count while the
\* lifetime totals go on counting.
C3_OpensAtThreshold ==
    /\ [](cb.state = "CLOSED" =>
            /\ cbFailRun < cb.config.failureThreshold
            /\ cb.failures = cbFailRun)
    /\ [][(cb.state = "CLOSED" /\ FailureRecorded) =>
            /\ cb'.state \in {"CLOSED", "OPEN"}
            /\ (cb'.state = "OPEN") <=> (cbFailRun' = cb.config.failureThreshold)
            /\ cb'.totalCalls = cb.totalCalls + 1]_vars
    /\ [][(cb.state = "CLOSED" /\ SuccessRecorded) =>
            /\ cb'.state = "CLOSED"
            /\ cb'.failures = 0
            /\ cb'.totalFailures = cb.totalFailures
            /\ cb'.totalCalls = cb.totalCalls + 1]_vars

\* C3 witness: a breaker with failureThreshold >= 2 was opened by the last
\* failure of a full run, after an earlier, shorter run was wiped by a success
C3_Witness ==
    /\ cb.config.failureThreshold >= 2
    /\ cb.state = "OPEN"
    /\ cbOutcome \in {"error", "recorded"}
    /\ cbFailRun = cb.config.failureThreshold
    /\ cb.totalSuccesses >= 1
    /\ cb.totalFailures > cb.config.failureThreshold
    /\ cb.lastFailureTime = now

\* C4: an admission check on an OPEN breaker made less than resetTimeoutMs
\* after the last recorded failure is refused, invokes nothing and leaves
\* every field of the breaker (state, lastFailureTime) as it was; the check
\* made once resetTimeoutMs has elapsed is let through and the breaker is
\* HALF_OPEN after it.
C4_OpenRejectsUntilReset ==
    [][(cb.state = "OPEN" /\ cb.lastFailureTime # Null /\ AdmissionCheck) =>
          IF now - cb.lastFailureTime < cb.config.resetTimeoutMs
          THEN /\ cb' = cb
               /\ cbInFlight' = cbInFlight
               /\ cbOutcome' \in {"CircuitBreakerOpenError", "denied"}
          ELSE /\ cb'.state = "HALF_OPEN"
               /\ cb'.lastFailureTime = cb.lastFailureTime
               /\ cbOutcome' \in {"invoked", "allowed"}]_vars

\* C4 witness: execute() was just refused by a breaker that recorded failures
\* opened, with the reset timeout still running
C4_Witness ==
    /\ cb.state = "OPEN"
    /\ cbOutcome = "CircuitBreakerOpenError"
    /\ cb.lastFailureTime # Null
    /\ now - cb.lastFailureTime < cb.config.resetTimeoutMs
    /\ cb.totalFailures >= cb.config.failureThreshold

\* C5: in HALF_OPEN fewer than successThreshold successes have been recorded
\* since it was entered; a success recorded in HALF_OPEN closes the circuit
\* exactly when it is the successThreshold-th, and a failure recorded in
\* HALF_OPEN opens it whatever the success count.
C5_HalfOpenClosesAtThreshold ==
    /\ [](cb.state = "HALF_OPEN" =>
            /\ cbProbeRun < cb.config.successThreshold
            /\ cb.successes = cbProbeRun)
    /\ [][(cb.state = "HALF_OPEN" /\ SuccessRecorded) =>
            /\ cb'.state \in {"HALF_OPEN", "CLOSED"}
            /\ (cb'.state = "CLOSED") <=> (cbProbeRun' = cb.config.successThreshold)]_vars
    /\ [][(cb.state = "HALF_OPEN" /\ FailureRecorded) => cb'.state = "OPEN"]_vars

\* C5 witness: a breaker with successThreshold >= 2 that failures had opened
\* was closed by the last success of a full run of probes
C5_Witness ==
    /\ cb.config.successThreshold >= 2
    /\ cb.state = "CLOSED"
    /\ cbOutcome \in {"result", "recorded"}
    /\ cbProbeRun = cb.config.successThreshold
    /\ cb.totalFailures >= 1
    /\ cb.lastSuccessTime = now

\* C37: while the call that execute() has just let through a HALF_OPEN
\* breaker is in flight, no admission check lets another call through:
\* isAllowed() does not answer true and execute() invokes no operation.
C37_OneProbeInHalfOpen ==
    [][(cbOutcome = "invoked" /\ cb.state = "HALF_OPEN")
          => (cbInFlight' <= cbInFlight /\ cbOutcome' # "allowed")]_vars

(***************************************************************************)
(* The two maps of breakers: circuitRegistry behind getOrCreateCircuit     *)
(* (circuit-breaker.ts) and circuitBreakers behind resilientCall           *)
(* (retry-with-circuit.ts), with retryAsync.                               *)
(***************************************************************************)
Names == {"api", "db"}

\* Map.get() of a name that is not in the map
NoCircuit == [state |-> "none"]

\* the config callers pass for a name (the same on both paths)
NamedConfig ==
    [failureThreshold |-> 1, resetTimeoutMs |-> MaxResetTimeout, successThreshold |-> 1]

\* error kinds an attempt can fail with
ErrorKinds == {"Error", "ValidationError", "TimeoutError", "CircuitBreakerOpenError"}

\* a predicate that has every failure retried
isDefaultRetryable_always(e) == TRUE

\* isDefaultRetryable(error)
isDefaultRetryable(e) ==
    IF e = "TimeoutError" THEN FALSE
    ELSE IF e = "CircuitBreakerOpenError" THEN FALSE
    ELSE IF e = "ValidationError" THEN FALSE
    ELSE TRUE

\* a slot of rcCalls holding no call; lastError is the variable of that
\* name in retryAsync
IdleCall ==
    [name |-> "", attempt |-> 0, phase |-> "idle", breaker |-> FALSE,
     lastError |-> "none"]

Slots == 1..MaxInFlight

FreeSlot == CHOOSE i \in Slots : rcCalls[i] = IdleCall /\ \A j \in 1..(i - 1) : rcCalls[j] # IdleCall

RECURSIVE SumOver(_, _)
SumOver(f, S) ==
    IF S = {} THEN 0
    ELSE LET x == CHOOSE y \in S : TRUE IN f[x] + SumOver(f, S \ {x})

\* outcomes recorded or still owed on the breakers of both maps
RegistryLoad ==
    SumOver([n \in Names |-> IF circuitRegistry[n] = NoCircuit THEN 0
                             ELSE circuitRegistry[n].totalCalls], Names)
    + SumOver([n \in Names |-> IF circuitBreakers[n] = NoCircuit THEN 0
                               ELSE circuitBreakers[n].totalCalls], Names)
    + SumOver(regInFlight, Names)
    + Cardinality({i \in Slots : rcCalls[i] # IdleCall})

\* getOrCreateCircuit(name, config): the map after the call
getOrCreateCircuit(registry, name, config) ==
    IF registry[name] = NoCircuit
    THEN [registry EXCEPT ![name] = CircuitBreaker(config)]
    ELSE registry

\* a caller obtains the breaker of a name
GetOrCreateCircuitCall ==
    /\ \E n \in Names :
          /\ circuitRegistry[n] = NoCircuit
          /\ circuitRegistry' = getOrCreateCircuit(circuitRegistry, n, NamedConfig)
          /\ rcOutcome' = [path |-> "registry", name |-> n, outcome |-> "created"]
    /\ UNCHANGED <<now, exceptRegistry, circuitBreakers, regInFlight, rcCalls>>

\* getOrCreateCircuit(name).execute(fn) up to the await
RegistryExecuteBegin ==
    /\ RegistryLoad < MaxRegistryCalls
    /\ \E n \in Names :
          LET reg == getOrCreateCircuit(circuitRegistry, n, NamedConfig)
              r == isAllowed(reg[n], now)
          IN  /\ circuitRegistry' = [reg EXCEPT ![n] = r.cb]
              /\ IF r.allowed
                 THEN /\ regInFlight' = [regInFlight EXCEPT ![n] = @ + 1]
                      /\ rcOutcome' = [path |-> "registry", name |-> n, outcome |-> "invoked"]
                 ELSE /\ UNCHANGED regInFlight
                      /\ rcOutcome' = [path |-> "registry", name |-> n,
                                       outcome |-> "CircuitBreakerOpenError"]
    /\ UNCHANGED <<now, exceptRegistry, circuitBreakers, rcCalls>>

\* getOrCreateCircuit(name).execute(fn): fn() resolved
RegistryExecuteResolve ==
    /\ \E n \in Names :
          /\ regInFlight[n] > 0
          /\ circuitRegistry' = [circuitRegistry EXCEPT ![n] = recordSuccess(@, now)]
          /\ regInFlight' = [regInFlight EXCEPT ![n] = @ - 1]
          /\ rcOutcome' = [path |-> "registry", name |-> n, outcome |-> "result"]
    /\ UNCHANGED <<now, exceptRegistry, circuitBreakers, rcCalls>>

\* getOrCreateCircuit(name).execute(fn): fn() rejected
RegistryExecuteReject ==
    /\ \E n \in Names :
          /\ regInFlight[n] > 0
          /\ circuitRegistry' = [circuitRegistry EXCEPT ![n] = recordFailure(@, now)]
          /\ regInFlight' = [regInFlight EXCEPT ![n] = @ - 1]
          /\ rcOutcome' = [path |-> "registry", name |-> n, outcome |-> "error"]
    /\ UNCHANGED <<now, exceptRegistry, circuitBreakers, rcCalls>>

\* resilientCall(fn, config) up to the first invocation of fn: the breaker is
\* looked up or created in circuitBreakers, admission is checked once, and
\* retryAsync makes attempt 1. useBreaker is config.circuitBreaker !== null.
ResilientCallBegin ==
    /\ RegistryLoad < MaxRegistryCalls
    /\ \E i \in Slots : rcCalls[i] = IdleCall
    /\ \E n \in Names, useBreaker \in BOOLEAN :
          LET started == [rcCalls EXCEPT ![FreeSlot] =
                            [name |-> n, attempt |-> 1, phase |-> "running",
                             breaker |-> useBreaker, lastError |-> "none"]]
          IN  IF useBreaker
              THEN LET map == getOrCreateCircuit(circuitBreakers, n, NamedConfig)
                       r == isAllowed(map[n], now)
                   IN  /\ circuitBreakers' = [map EXCEPT ![n] = r.cb]
                       /\ IF r.allowed
                          THEN /\ rcCalls' = started
                               /\ rcOutcome' = [path |-> "resilientCall", name |-> n,
                                                outcome |-> "invoked"]
                          ELSE /\ UNCHANGED rcCalls
                               /\ rcOutcome' = [path |-> "resilientCall", name |-> n,
                                                outcome |-> "CircuitBreakerOpenError"]
              ELSE /\ rcCalls' = started
                   /\ rcOutcome' = [path |-> "resilientCall", name |-> n, outcome |-> "invoked"]
                   /\ UNCHANGED circuitBreakers
    /\ UNCHANGED <<now, exceptRegistry, circuitRegistry, regInFlight>>

\* resilientCall: an attempt resolved; retryAsync returns, success is recorded
ResilientCallResolve ==
    /\ \E i \in Slots :
          LET c == rcCalls[i]
          IN  /\ c.phase = "running"
              /\ circuitBreakers' =
                    IF c.breaker
                    THEN [circuitBreakers EXCEPT ![c.name] = recordSuccess(@, now)]
                    ELSE circuitBreakers
              /\ rcCalls' = [rcCalls EXCEPT ![i] = IdleCall]
              /\ rcOutcome' = [path |-> "resilientCall", name |-> c.name, outcome |-> "result"]
    /\ UNCHANGED <<now, exceptRegistry, circuitRegistry, regInFlight>>

\* resilientCall: an attempt rejected with error e. retryAsync sleeps before
\* the next attempt when it is not the last one and e is retryable; otherwise
\* it throws e and resilientCall records the failure (unless e is a
\* CircuitBreakerOpenError).
ResilientCallReject ==
    /\ \E i \in Slots, e \in ErrorKinds :
          LET c == rcCalls[i]
              isLastAttempt == c.attempt >= MaxAttempts
              shouldRetry == ~isLastAttempt /\ isDefaultRetryable(e)
          IN  /\ c.phase = "running"
              /\ IF shouldRetry
                 THEN /\ rcCalls' = [rcCalls EXCEPT ![i].phase = "sleeping",
                                                      ![i].lastError = e]
                      /\ rcOutcome' = [path |-> "resilientCall", name |-> c.name,
                                       outcome |-> "retrying"]
                      /\ UNCHANGED circuitBreakers
                 ELSE /\ circuitBreakers' =
                            IF c.breaker /\ e # "CircuitBreakerOpenError"
                            THEN [circuitBreakers EXCEPT ![c.name] = recordFailure(@, now)]
                            ELSE circuitBreakers
                      /\ rcCalls' = [rcCalls EXCEPT ![i] = IdleCall]
                      /\ rcOutcome' = [path |-> "resilientCall", name |-> c.name, outcome |-> e]
    /\ UNCHANGED <<now, exceptRegistry, circuitRegistry, regInFlight>>

\* retryAsync: the sleep between two attempts is over, fn is invoked again
ResilientCallRetry ==
    /\ \E i \in Slots :
          /\ rcCalls[i].phase = "sleeping"
          /\ rcCalls' = [rcCalls EXCEPT ![i].phase = "running", ![i].attempt = @ + 1]
          /\ rcOutcome' = [path |-> "resilientCall", name |-> rcCalls[i].name,
                           outcome |-> "invoked"]
    /\ UNCHANGED <<now, exceptRegistry, circuitRegistry, circuitBreakers, regInFlight>>

\* C6: whenever both maps hold a breaker for a name it is one breaker, so the
\* two entries show the same state, counters and timestamps.
C6_OneBreakerPerName ==
    \A n \in Names :
        (circuitRegistry[n] # NoCircuit /\ circuitBreakers[n] # NoCircuit)
            => circuitRegistry[n] = circuitBreakers[n]

\* C6, the consequence the claim draws: a call through getOrCreateCircuit(n)
\* is not let through while the breaker resilientCall uses for n is OPEN
\* with its reset timeout running, and the other way round.
C6_OpenRejectsOtherPath ==
    [][\A n \in Names :
          /\ (/\ circuitBreakers[n] # NoCircuit
              /\ circuitBreakers[n].state = "OPEN"
              /\ ~resetTimeoutElapsed(circuitBreakers[n], now))
                => regInFlight'[n] <= regInFlight[n]
          /\ (/\ circuitRegistry[n] # NoCircuit
              /\ circuitRegistry[n].state = "OPEN"
              /\ ~resetTimeoutElapsed(circuitRegistry[n], now))
                => \A i \in Slots :
                      (rcCalls'[i].name = n /\ rcCalls'[i].breaker)
                          => rcCalls[i].name = n]_vars

\* C32: retryAsync makes at most maxAttempts attempts; an attempt that
\* succeeds ends the call; an attempt that fails is followed by a sleep and
\* one more attempt only when it is not the last attempt and the failure is
\* none that the predicate rejects (a TimeoutError, a
\* CircuitBreakerOpenError); otherwise the failure of that attempt is what
\* the call throws, and a retryable failure is thrown only by the last
\* attempt.
C32_RetryUpToMaxAttempts ==
    /\ [](\A i \in Slots :
              /\ rcCalls[i].attempt <= MaxAttempts
              /\ rcCalls[i].phase = "sleeping"
                   => (/\ rcCalls[i].attempt < MaxAttempts
                       /\ rcCalls[i].lastError
                             \notin {"none", "TimeoutError", "CircuitBreakerOpenError"}))
    /\ [][\A i \in Slots :
              /\ (rcCalls[i].phase = "running" /\ rcCalls'[i] # rcCalls[i])
                   => \/ /\ rcOutcome'.outcome = "result"
                         /\ rcCalls'[i] = IdleCall
                      \/ /\ rcOutcome'.outcome = "retrying"
                         /\ rcCalls'[i].phase = "sleeping"
                         /\ rcCalls'[i].attempt = rcCalls[i].attempt
                      \/ /\ rcOutcome'.outcome \in ErrorKinds
                         /\ rcCalls'[i] = IdleCall
                         /\ rcOutcome'.outcome = "Error"
                               => rcCalls[i].attempt = MaxAttempts
              /\ (rcCalls[i].phase = "sleeping" /\ rcCalls'[i] # rcCalls[i])
                   => (/\ rcCalls'[i].phase = "running"
                       /\ rcCalls'[i].attempt = rcCalls[i].attempt + 1)]_vars

\* C32 witness: a call has thrown the retryable failure of its last attempt
\* while another call sleeps before its second attempt
C32_Witness ==
    /\ rcOutcome = [path |-> "resilientCall", name |-> rcOutcome.name,
                    outcome |-> "Error"]
    /\ \E i \in Slots : rcCalls[i].phase = "sleeping" /\ rcCalls[i].lastError = "Error"

\* the step invokes the operation of call i, which uses a breaker
InvokedThroughBreaker(i) ==
    /\ rcCalls'[i].phase = "running"
    /\ rcCalls'[i].breaker
    /\ rcCalls[i].phase # "running"

\* C33: no attempt of a resilientCall that uses a breaker, the first or a
\* later one, invokes the operation while the breaker of its name is OPEN
\* with its reset timeout running.
C33_NoInvocationWhileOpen ==
    [][\A i \in Slots :
          InvokedThroughBreaker(i)
              => ~(/\ circuitBreakers'[rcCalls'[i].name].state = "OPEN"
                   /\ ~resetTimeoutElapsed(circuitBreakers'[rcCalls'[i].name], now'))]_vars

\* what holds of the admission: the first attempt is not made through an
\* OPEN breaker
FirstAttemptIsAdmitted ==
    [][\A i \in Slots :
          (InvokedThroughBreaker(i) /\ rcCalls[i].phase = "idle")
              => circuitBreakers'[rcCalls'[i].name].state # "OPEN"]_vars

(***************************************************************************)
(* HeartbeatMonitor (src/src/supervisor/heartbeat-monitor.ts)              *)
(***************************************************************************)
\* recordHeartbeat keeps the last 100 intervals for the average
IntervalHistory == 100

\* the configurations the model draws a monitor's config from
HeartbeatConfigs ==
    [ intervalMs : {1},
      timeoutMs : 1..MaxTimeoutMs,
      missedThreshold : 1..MaxMissedThreshold ]

\* new HeartbeatMonitor(config): the field initialisers. checkTimer is the
\* pending setInterval, held as the time its next callback is due.
HeartbeatMonitor(config) ==
    [ lastHeartbeat |-> Null,
      lastData |-> Null,
      missedCount |-> 0,
      totalReceived |-> 0,
      totalMissed |-> 0,
      intervals |-> <<>>,
      checkTimer |-> Null,
      isAlive |-> FALSE,
      started |-> FALSE,
      config |-> config ]

\* start()
HeartbeatMonitor_start(h, t) ==
    IF h.started THEN h
    ELSE [h EXCEPT !.started = TRUE,
                   !.isAlive = TRUE,
                   !.missedCount = 0,
                   !.checkTimer = t + h.config.intervalMs]

\* stop()
HeartbeatMonitor_stop(h) ==
    IF ~h.started THEN h
    ELSE [h EXCEPT !.started = FALSE, !.checkTimer = Null]

\* recordHeartbeat that trusts the sender's clock (data.timestamp for Date.now())
recordHeartbeat_senderClock(h, data, t) ==
    LET pushed == IF h.lastHeartbeat # Null
                  THEN Append(h.intervals, data - h.lastHeartbeat)
                  ELSE h.intervals
        kept == IF Len(pushed) > IntervalHistory THEN Tail(pushed) ELSE pushed
    IN  [h EXCEPT !.intervals = kept,
                  !.lastHeartbeat = data,
                  !.lastData = data,
                  !.missedCount = 0,
                  !.totalReceived = @ + 1,
                  !.isAlive = TRUE]

\* recordHeartbeat(data) at time t; data is held as data.timestamp
recordHeartbeat(h, data, t) ==
    LET pushed == IF h.lastHeartbeat # Null
                  THEN Append(h.intervals, t - h.lastHeartbeat)
                  ELSE h.intervals
        kept == IF Len(pushed) > IntervalHistory THEN Tail(pushed) ELSE pushed
    IN  [h EXCEPT !.intervals = kept,
                  !.lastHeartbeat = t,
                  !.lastData = data,
                  !.missedCount = 0,
                  !.totalReceived = @ + 1,
                  !.isAlive = TRUE]

\* checkHeartbeat() at time t: the monitor after the check and the callbacks
\* the check invoked
checkHeartbeat(h, t) ==
    IF ~h.started THEN [hb |-> h, missed |-> FALSE, dead |-> FALSE]
    ELSE IF h.lastHeartbeat = Null
         THEN [hb |-> [h EXCEPT !.missedCount = @ + 1, !.totalMissed = @ + 1],
               missed |-> FALSE, dead |-> FALSE]
         ELSE IF t - h.lastHeartbeat > h.config.timeoutMs
              THEN LET g == [h EXCEPT !.missedCount = @ + 1,
                                      !.totalMissed = @ + 1,
                                      !.isAlive = FALSE]
                   IN  [hb |-> g, missed |-> TRUE,
                        dead |-> g.missedCount >= g.config.missedThreshold]
              ELSE [hb |-> h, missed |-> FALSE, dead |-> FALSE]

\* reset()
HeartbeatMonitor_reset(h) ==
    [h EXCEPT !.lastHeartbeat = Null,
              !.lastData = Null,
              !.missedCount = 0,
              !.intervals = <<>>,
              !.isAlive = FALSE]

\* the callbacks a check invoked
FiredBy(r) == [heartbeat |-> FALSE, missed |-> r.missed, dead |-> r.dead]

(***************************************************************************)
(* Operations on a monitor used on its own.                                *)
(***************************************************************************)
HeartbeatStart ==
    /\ ~hb.started
    /\ hb' = HeartbeatMonitor_start(hb, now)
    /\ hbDeadRun' = 0
    /\ hbFired' = NoneFired
    /\ UNCHANGED <<now, hbLastArrival, exceptHeartbeat>>

HeartbeatStop ==
    /\ hb.started
    /\ hb' = HeartbeatMonitor_stop(hb)
    /\ hbFired' = NoneFired
    /\ UNCHANGED <<now, hbDeadRun, hbLastArrival, exceptHeartbeat>>

\* a heartbeat message arrives; the worker stamped it now or one tick ago
RecordHeartbeatCall ==
    /\ hb.totalReceived < MaxHeartbeats
    /\ \E data \in {d \in {now - 1, now} : d >= 1} :
          hb' = recordHeartbeat(hb, data, now)
    /\ hbFired' = [NoneFired EXCEPT !.heartbeat = TRUE]
    /\ hbDeadRun' = 0
    /\ hbLastArrival' = now
    /\ UNCHANGED <<now, exceptHeartbeat>>

\* the setInterval callback runs
HeartbeatCheck ==
    /\ hb.checkTimer # Null
    /\ now >= hb.checkTimer
    /\ LET r == checkHeartbeat(hb, now)
       IN  /\ hb' = [r.hb EXCEPT !.checkTimer = now + hb.config.intervalMs]
           /\ hbFired' = FiredBy(r)
           /\ hbDeadRun' = hbDeadRun + (IF r.dead THEN 1 ELSE 0)
    /\ UNCHANGED <<now, hbLastArrival, exceptHeartbeat>>

HeartbeatReset ==
    /\ hb # HeartbeatMonitor_reset(hb)
    /\ hb' = HeartbeatMonitor_reset(hb)
    /\ hbDeadRun' = 0
    /\ hbLastArrival' = Null
    /\ hbFired' = NoneFired
    /\ UNCHANGED <<now, exceptHeartbeat>>

(***************************************************************************)
(* Statements about the monitor.                                           *)
(***************************************************************************)
\* C7: between two heartbeats (or a reset() or start()) the dead callback is
\* invoked at most once, however many checks find missedCount at or above
\* missedThreshold.
C7_DeadFiresOncePerSilence == hbDeadRun <= 1

\* C8: a check of a started monitor that never received a heartbeat
\* increments missedCount, invokes the missed callback, and invokes the dead
\* callback if missedCount has reached missedThreshold.
C8_NeverArrivedCountsAsMissed ==
    [][(HeartbeatCheck /\ hb.started /\ hb.totalReceived = 0) =>
          /\ hb'.missedCount = hb.missedCount + 1
          /\ hbFired'.missed
          /\ (hb'.missedCount >= hb.config.missedThreshold => hbFired'.dead)]_vars

\* C9: a started monitor whose missedCount is at or above missedThreshold
\* reports the worker as not alive.
C9_ThresholdImpliesNotAlive ==
    (hb.started /\ hb.missedCount >= hb.config.missedThreshold) => ~hb.isAlive

\* C10: a heartbeat, whatever the monitor's state, zeroes missedCount, sets
\* isAlive and becomes the heartbeat liveness is computed from; a check
\* counts a miss only when more than timeoutMs has passed since the latest
\* heartbeat arrived (or none has arrived since construction or reset()).
C10_LatestHeartbeatWins ==
    /\ [][RecordHeartbeatCall =>
            /\ hb'.missedCount = 0
            /\ hb'.isAlive
            /\ hb'.lastHeartbeat = now
            /\ hb'.started = hb.started]_vars
    /\ [][(HeartbeatCheck /\ hb'.missedCount > hb.missedCount) =>
            \/ hbLastArrival = Null
            \/ now - hbLastArrival > hb.config.timeoutMs]_vars
    /\ [][(HeartbeatCheck /\ hbLastArrival # Null
              /\ now - hbLastArrival <= hb.config.timeoutMs) =>
            /\ hb'.missedCount = hb.missedCount
            /\ hb'.isAlive = hb.isAlive]_vars

\* C10 witness: a monitor that had counted misses was brought back by a
\* second heartbeat, and a later check inside timeoutMs left it alive
C10_Witness ==
    /\ hb.started
    /\ hb.totalReceived >= 2
    /\ hb.totalMissed >= 1
    /\ hb.missedCount = 0
    /\ hb.isAlive
    /\ hbLastArrival # Null
    /\ hbLastArrival < now
    /\ now - hbLastArrival <= hb.config.timeoutMs
    /\ hb.checkTimer = now + hb.config.intervalMs

(***************************************************************************)
(* WorkerManager (src/src/supervisor/worker-manager.ts)                    *)
(*                                                                         *)
(* One action is one turn of the event loop: an API call up to its first   *)
(* await, or one event (a message, exit or error of a child, a timer) with *)
(* every listener it runs and every promise continuation that those        *)
(* listeners make runnable.  The handlers are operators on a "world" w,    *)
(* the manager's state threaded through the calls of one turn.             *)
(***************************************************************************)
WorkerState == {"stopped", "starting", "running", "stopping", "crashed", "hung"}

\* the manager's config, in ticks: DEFAULT_CONFIG scaled down, with the
\* startupTimeoutMs and heartbeat settings of the constructor. The second
\* restart backs off (3 > 1) and is capped (2 < 3); a worker can outlive the
\* restart window before the clock runs out.
WorkerConfig ==
    [ maxRestarts |-> 2,
      restartDelayMs |-> 1,
      maxRestartDelayMs |-> 2,
      backoffMultiplier |-> 3,
      restartWindowMs |-> 1,
      startupTimeoutMs |-> 1,
      heartbeat |-> [intervalMs |-> 1, timeoutMs |-> 1, missedThreshold |-> 1] ]

\* stop(timeoutMs), in ticks
StopTimeoutMs == 1

Pids == 1..MaxWorkers

\* a ChildProcess: fork() makes it alive; waiter is who awaits its
\* waitForReady promise ("start", "timer", or "none" once it is settled) and
\* startupTimer the time the startup timeout is due
NoProcess ==
    [status |-> "unborn", waiter |-> "none", startupTimer |-> Null,
     signals |-> {}, shutdown |-> FALSE, errored |-> FALSE]

\* new WorkerManager(config): the field initialisers
WorkerManager ==
    [ worker |-> Null,
      state |-> "stopped",
      startedAt |-> Null,
      restartCount |-> 0,
      consecutiveRestarts |-> 0,
      lastRestartAt |-> Null,
      lastExitCode |-> Null,
      lastExitSignal |-> "null",
      restartTimer |-> Null,
      shouldRestart |-> TRUE ]

\* the state one turn of the event loop works on
World ==
    [wm |-> wm, hb |-> hb, procs |-> procs, timers |-> timers, stops |-> stops,
     emitted |-> <<>>, fired |-> NoneFired, deadRun |-> hbDeadRun,
     lastArrival |-> hbLastArrival, stopRequested |-> stopRequested]

Alive(ps) == {p \in Pids : ps[p].status = "alive"}
Unborn(ps) == {p \in Pids : ps[p].status = "unborn"}

\* this.emit(event, ...)
Emit(w, e) == [w EXCEPT !.emitted = Append(@, e)]

RECURSIVE Pow(_, _)
Pow(b, e) == IF e <= 0 THEN 1 ELSE b * Pow(b, e - 1)

Min(a, b) == IF a <= b THEN a ELSE b

\* a backoff that multiplies once too often (exponent consecutiveRestarts)
restartDelay_eager(consecutiveRestarts) ==
    Min(WorkerConfig.restartDelayMs
            * Pow(WorkerConfig.backoffMultiplier, consecutiveRestarts),
        WorkerConfig.maxRestartDelayMs)

\* the backoff delay of the restart numbered consecutiveRestarts
restartDelay(consecutiveRestarts) ==
    Min(WorkerConfig.restartDelayMs
            * Pow(WorkerConfig.backoffMultiplier, consecutiveRestarts - 1),
        WorkerConfig.maxRestartDelayMs)

\* a handle setTimeout has not given to a pending restart timer
FreeTimer(ts) == CHOOSE i \in 1..(Cardinality(ts) + 1) : \A x \in ts : x.id # i

\* killWorker(signal)
killWorker(w, signal) ==
    IF w.wm.worker = Null THEN w
    ELSE [w EXCEPT !.procs[w.wm.worker].signals = @ \cup {signal}]

\* sendMessage(message) for the shutdown message: delivered when the
\* worker is there and connected
sendShutdown(w) ==
    IF w.wm.worker = Null \/ w.procs[w.wm.worker].status # "alive" THEN w
    ELSE [w EXCEPT !.procs[w.wm.worker].shutdown = TRUE]

\* spawnWorker() up to its await: fork, listeners, waitForReady's timer
spawnWorker(w, caller, t) ==
    LET pid == CHOOSE p \in Unborn(w.procs) : \A q \in Unborn(w.procs) : p <= q
    IN  [w EXCEPT !.wm.worker = pid,
                  !.procs[pid] = [NoProcess EXCEPT
                                    !.status = "alive",
                                    !.waiter = caller,
                                    !.startupTimer = t + WorkerConfig.startupTimeoutMs]]

\* a window test that also lapses at exactly restartWindowMs
windowLapsed_inclusive(lastRestartAt, t) ==
    /\ lastRestartAt # Null
    /\ lastRestartAt # 0
    /\ t - lastRestartAt >= WorkerConfig.restartWindowMs

\* the restart window is over: lastRestartAt is set (and truthy) and more
\* than restartWindowMs ago
windowLapsed(lastRestartAt, t) ==
    /\ lastRestartAt # Null
    /\ lastRestartAt # 0
    /\ t - lastRestartAt > WorkerConfig.restartWindowMs

\* a scheduleRestart() that counts and announces the restart but arms no timer
scheduleRestart_unarmed(w, t) ==
    LET lapsed == windowLapsed(w.wm.lastRestartAt, t)
        consecutive == (IF lapsed THEN 0 ELSE w.wm.consecutiveRestarts) + 1
        counted == [w EXCEPT !.wm.consecutiveRestarts = consecutive,
                             !.wm.restartCount = @ + 1]
    IN  IF consecutive > WorkerConfig.maxRestarts
        THEN [Emit(counted, "max-restarts")
                EXCEPT !.wm.shouldRestart = FALSE]
        ELSE Emit(counted, "restarting")

\* scheduleRestart()
scheduleRestart(w, t) ==
    LET lapsed == windowLapsed(w.wm.lastRestartAt, t)
        consecutive == (IF lapsed THEN 0 ELSE w.wm.consecutiveRestarts) + 1
        counted == [w EXCEPT !.wm.consecutiveRestarts = consecutive,
                             !.wm.restartCount = @ + 1]
    IN  IF consecutive > WorkerConfig.maxRestarts
        THEN [Emit(counted, "max-restarts")
                EXCEPT !.wm.shouldRestart = FALSE]
        ELSE LET delay == restartDelay(consecutive)
                 id == FreeTimer(w.timers)
             IN  [Emit(counted, "restarting")
                    EXCEPT !.wm.restartTimer = id,
                           !.timers = @ \cup {[id |-> id, due |-> t + delay]}]

\* handleWorkerExit(code, signal)
handleWorkerExit(w, code, signal, t) ==
    LET left == [w EXCEPT !.hb = HeartbeatMonitor_stop(@),
                          !.wm.worker = Null,
                          !.wm.lastExitCode = code,
                          !.wm.lastExitSignal = signal]
    IN  IF left.wm.state = "stopping"
        THEN Emit([left EXCEPT !.wm.state = "stopped"],
                  "stopped")
        ELSE LET crashed == Emit([left EXCEPT !.wm.state = "crashed"],
                                 "crashed")
             IN  IF crashed.wm.shouldRestart
                 THEN scheduleRestart(crashed, t)
                 ELSE crashed

\* handleHungWorker(missedHeartbeats)
handleHungWorker(w, missed) ==
    killWorker(Emit([w EXCEPT !.wm.state = "hung"],
                    "hung"),
               "SIGKILL")

\* start() up to its await
WorkerManager_start(w, t) ==
    LET called == [w EXCEPT !.stopRequested = FALSE]
    IN  IF w.wm.state = "running" \/ w.wm.state = "starting" THEN called
        ELSE spawnWorker([called EXCEPT !.wm.shouldRestart = TRUE,
                                        !.wm.state = "starting"],
                         "start", t)

\* what runs when the promise of spawnWorker() rejects: the catch of
\* start() or the catch of the restart timer's callback
spawnRejected(w, caller, t) ==
    IF caller = "start" THEN [w EXCEPT !.wm.state = "crashed"]
    ELSE IF caller = "timer" THEN scheduleRestart(w, t)
    ELSE w

\* spawnWorker() after its await, when waitForReady resolved; reading
\* this.worker.pid throws when this.worker is null, which rejects spawnWorker
spawnResumed(w, caller, t) ==
    LET up == [w EXCEPT !.wm.state = "running",
                        !.wm.startedAt = t,
                        !.hb = HeartbeatMonitor_start(@, t),
                        !.deadRun = IF w.hb.started THEN @ ELSE 0]
    IN  IF up.wm.worker = Null
        THEN spawnRejected(up, caller, t)
        ELSE Emit(up, "started")

\* stop() after its await (the race of the exit and the shutdown timer),
\* followed by the rest of restart() when restart() made the call
stopResumed(w, viaRestart, t) ==
    LET killed == killWorker(w, "SIGKILL")
        stopped == [killed EXCEPT !.wm.state = "stopped",
                                  !.hb = HeartbeatMonitor_stop(@)]
    IN  IF viaRestart
        THEN WorkerManager_start([stopped EXCEPT !.wm.consecutiveRestarts = 0], t)
        ELSE stopped

\* stop(timeoutMs) up to its await; a call that returns at once changes
\* nothing (and restart() goes on to start())
WorkerManager_stop(w, viaRestart, t) ==
    IF w.wm.worker = Null \/ w.wm.state = "stopped" \/ w.wm.state = "stopping"
    THEN IF viaRestart
         THEN WorkerManager_start([w EXCEPT !.wm.consecutiveRestarts = 0], t)
         ELSE [w EXCEPT !.stopRequested = TRUE]
    ELSE LET off == [w EXCEPT !.wm.shouldRestart = FALSE, !.wm.state = "stopping",
                              !.stopRequested = TRUE]
             cleared == IF off.wm.restartTimer # Null
                        THEN [off EXCEPT
                                !.timers = {x \in @ : x.id # off.wm.restartTimer},
                                !.wm.restartTimer = Null]
                        ELSE off
             told == sendShutdown(cleared)
         IN  [told EXCEPT !.stops = @ \cup {[pid |-> told.wm.worker,
                                             due |-> t + StopTimeoutMs,
                                             awaiting |-> TRUE,
                                             timer |-> TRUE,
                                             restart |-> viaRestart]}]

\* the world as the manager's next state
CommitManager(w) ==
    /\ wm' = w.wm
    /\ hb' = w.hb
    /\ procs' = w.procs
    /\ timers' = w.timers
    /\ stops' = w.stops
    /\ emitted' = w.emitted
    /\ hbFired' = w.fired
    /\ hbDeadRun' = w.deadRun
    /\ hbLastArrival' = w.lastArrival
    /\ stopRequested' = w.stopRequested

\* a turn of a manager whose events nobody listens to
Commit(w) ==
    /\ CommitManager(w)
    /\ supEmitted' = <<>>
    /\ UNCHANGED <<now, exceptWorker>>

(***************************************************************************)
(* Turns of the event loop of a WorkerManager.                             *)
(***************************************************************************)
\* pids the start() at the end of a pending restart() will need
Reserved == Cardinality({x \in stops : x.awaiting /\ x.restart})

CanFork == Cardinality(Unborn(procs)) > Reserved

\* the pending stop() calls waiting for the exit of p resume, the earliest
\* call first; the shutdown timer of each stays pending (it is never cleared)
RECURSIVE exitResumesStops(_, _, _)
exitResumesStops(w, p, t) ==
    LET waitingOn == {x \in w.stops : x.pid = p /\ x.awaiting}
    IN  IF waitingOn = {} THEN w
        ELSE LET x == CHOOSE y \in waitingOn : \A z \in waitingOn : y.due <= z.due
                 rest == (w.stops \ {x}) \cup
                            (IF x.timer THEN {[x EXCEPT !.awaiting = FALSE]} ELSE {})
             IN  exitResumesStops(stopResumed([w EXCEPT !.stops = rest], x.restart, t),
                                  p, t)

\* a caller invokes start()
StartCall ==
    /\ CanFork
    /\ Commit(WorkerManager_start(World, now))

\* a caller invokes stop()
StopCall ==
    /\ Commit(WorkerManager_stop(World, FALSE, now))

\* a caller invokes restart(): stop(), then consecutiveRestarts = 0 and start()
RestartCall ==
    /\ CanFork
    /\ Commit(WorkerManager_stop(World, TRUE, now))

\* the 'exit' event of child p: handleWorkerExit, then the exit listener of
\* waitForReady and those of the pending stop() calls; the stop() calls
\* resume first and the rejected spawnWorker() reaches its caller's catch last
exited(w, p, how, t) ==
    LET waiter == w.procs[p].waiter
        gone == [w EXCEPT !.procs[p] = [NoProcess EXCEPT !.status = "exited"]]
        handled == handleWorkerExit(gone, how.code, how.signal, t)
        resumed == exitResumesStops(handled, p, t)
    IN  spawnRejected(resumed, waiter, t)

\* child p exits, with an exit code or by a signal it was sent
WorkerExit ==
    \E p \in Alive(procs) :
    \E how \in {[code |-> 0, signal |-> "null"], [code |-> 1, signal |-> "null"]}
                \cup {[code |-> Null, signal |-> sig] : sig \in procs[p].signals} :
        Commit(exited(World, p, how, now))

\* the 'error' event of child p: handleWorkerExit(1, null); the child is
\* still there and its waitForReady promise stays pending
WorkerError ==
    \E p \in Alive(procs) :
        /\ ~procs[p].errored
        /\ Commit(handleWorkerExit([World EXCEPT !.procs[p].errored = TRUE],
                                   1, "null", now))

\* child p sends { type: 'ready' }: handleWorkerMessage emits 'message',
\* then waitForReady resolves if it is still pending and spawnWorker resumes
readied(w, p, t) ==
    LET waiter == w.procs[p].waiter
        told == Emit(w, "message")
    IN  IF waiter = "none"
        THEN told
        ELSE spawnResumed([told EXCEPT !.procs[p].waiter = "none",
                                       !.procs[p].startupTimer = Null],
                          waiter, t)

\* child p sends { type: 'ready' }
WorkerReady ==
    \E p \in Alive(procs) : Commit(readied(World, p, now))

\* child p sends { type: 'heartbeat', heartbeat: data }, stamped with the
\* time of sending
WorkerHeartbeat ==
    /\ hb.totalReceived < MaxWorkerHeartbeats
    /\ \E p \in Alive(procs) :
       \E data \in {now} :
          Commit(Emit([World EXCEPT !.hb = recordHeartbeat(@, data, now),
                                    !.fired.heartbeat = TRUE,
                                    !.deadRun = 0,
                                    !.lastArrival = now],
                      "heartbeat"))

\* the startup timeout of child p expires: waitForReady rejects, the child
\* is left running
StartupTimeout ==
    \E p \in Pids :
        /\ procs[p].startupTimer # Null
        /\ now >= procs[p].startupTimer
        /\ Commit(spawnRejected([World EXCEPT !.procs[p].waiter = "none",
                                              !.procs[p].startupTimer = Null],
                                procs[p].waiter, now))

\* a restart timer expires: the callback of scheduleRestart up to its await
RestartTimerFire ==
    /\ CanFork
    /\ \E x \in timers :
          /\ now >= x.due
          /\ Commit(spawnWorker([World EXCEPT !.timers = @ \ {x},
                                              !.wm.restartTimer = Null,
                                              !.wm.lastRestartAt = now,
                                              !.hb = HeartbeatMonitor_reset(@),
                                              !.deadRun = 0,
                                              !.lastArrival = Null],
                                "timer", now))

\* the shutdown timer of a stop() call expires: SIGTERM to the current
\* worker if there is one, then stop() resumes unless the exit resumed it
StopTimeout ==
    \E x \in stops :
        /\ x.timer
        /\ now >= x.due
        /\ LET termed == killWorker([World EXCEPT !.stops = @ \ {x}], "SIGTERM")
           IN  IF x.awaiting
               THEN Commit(stopResumed(termed, x.restart, now))
               ELSE Commit(termed)

\* the setInterval callback of the manager's heartbeat monitor; its onDead
\* is handleHungWorker
WorkerHeartbeatCheck ==
    /\ hb.checkTimer # Null
    /\ now >= hb.checkTimer
    /\ LET r == checkHeartbeat(hb, now)
           checked == [World EXCEPT
                         !.hb = [r.hb EXCEPT !.checkTimer = now + hb.config.intervalMs],
                         !.fired = FiredBy(r),
                         !.deadRun = @ + (IF r.dead THEN 1 ELSE 0)]
       IN  IF r.dead
           THEN Commit(handleHungWorker(checked, r.hb.missedCount))
           ELSE Commit(checked)

(***************************************************************************)
(* Statements about the manager.                                           *)
(***************************************************************************)
\* C1: at most one forked worker is alive at any time.
C1_AtMostOneWorkerAlive == Cardinality(Alive(procs)) <= 1

\* C2: once stop() has been called, no worker is forked until start() is
\* called again.
C2_NoSpawnAfterStop ==
    [][(stopRequested /\ stopRequested') => Unborn(procs') = Unborn(procs)]_vars

\* C2, the mechanism the claim names: after stop() auto-restart is off and
\* no restart timer is pending.
C2_StopCancelsRestart ==
    stopRequested => (~wm.shouldRestart /\ timers = {})

\* e is among the events the last turn emitted
Emitted(events, e) == \E i \in 1..Len(events) : events[i] = e

\* the 'exit' event of child p is handled in this step
Exits(p) == procs[p].status = "alive" /\ procs'[p].status = "exited"

\* a restart() is waiting for the exit of p to go on with start()
RestartAwaits(p) == \E x \in stops : x.pid = p /\ x.awaiting /\ x.restart

\* C11: the exit of a worker that stop() asked to shut down emits 'stopped',
\* never 'crashed', and leaves the manager stopped (or starting again, when
\* the stop was that of a restart()), whether the worker left by itself or
\* was killed after the shutdown timeout.
C11_RequestedExitIsStopped ==
    [][\A p \in Pids :
          (Exits(p) /\ procs[p].shutdown) =>
              /\ Emitted(emitted', "stopped")
              /\ ~Emitted(emitted', "crashed")
              /\ (wm'.state = "stopped" \/ RestartAwaits(p))]_vars

\* how often e is among the events the last turn emitted
EmittedCount(events, e) == Cardinality({i \in 1..Len(events) : events[i] = e})

\* the spawn attempt of child p fails in this step: its waitForReady
\* promise, still pending, is rejected by the exit or by the startup timeout
StartupFails(p) ==
    /\ WorkerExit \/ StartupTimeout
    /\ procs[p].waiter # "none"
    /\ procs'[p].waiter = "none"

\* C12: a startup failure (exit before ready, or startup timeout; of the
\* first start or of a scheduled restart) with no stop requested sets the
\* state to crashed, emits 'crashed' once and, when restarts are permitted,
\* schedules one restart (or gives up with 'max-restarts').
C12_StartupFailureIsCrash ==
    [][\A p \in Pids :
          (StartupFails(p) /\ ~stopRequested /\ wm.state # "stopping") =>
              /\ wm'.state = "crashed"
              /\ EmittedCount(emitted', "crashed") = 1
              /\ (wm.shouldRestart =>
                    /\ wm'.restartCount = wm.restartCount + 1
                    /\ \/ Cardinality(timers') = Cardinality(timers) + 1
                       \/ Emitted(emitted', "max-restarts"))]_vars

\* handleWorkerExit treats an exit or an error as a crash in this step
CrashHandled == Emitted(emitted', "crashed")

\* the manager gave up: scheduleRestart went past maxRestarts and switched
\* auto-restart off
GaveUp == ~wm.shouldRestart /\ wm.consecutiveRestarts > WorkerConfig.maxRestarts

\* C13: a crash inside the restart window with restarts permitted schedules
\* one restart while fewer than maxRestarts consecutive restarts were
\* counted; the crash after that emits 'max-restarts', schedules none and
\* switches auto-restart off; and once the manager gave up nothing is forked
\* until start() switches auto-restart on again.
C13_MaxRestartsThenGiveUp ==
    /\ [][(CrashHandled /\ wm.shouldRestart
              /\ ~windowLapsed(wm.lastRestartAt, now)) =>
            IF wm.consecutiveRestarts < WorkerConfig.maxRestarts
            THEN /\ Cardinality(timers') = Cardinality(timers) + 1
                 /\ ~Emitted(emitted', "max-restarts")
                 /\ wm'.shouldRestart
            ELSE /\ Emitted(emitted', "max-restarts")
                 /\ timers' \subseteq timers
                 /\ ~wm'.shouldRestart]_vars
    /\ [][(GaveUp /\ GaveUp') => Unborn(procs') = Unborn(procs)]_vars

\* scheduleRestart() runs once in this step, and no restart() is under way
\* that would zero consecutiveRestarts in the same turn
OneRestartCounted ==
    /\ wm'.restartCount = wm.restartCount + 1
    /\ \A x \in stops : ~x.restart

\* the consecutive count scheduleRestart() arrives at when called now
CountedAs ==
    IF wm.lastRestartAt # Null /\ now - wm.lastRestartAt > WorkerConfig.restartWindowMs
    THEN 1
    ELSE wm.consecutiveRestarts + 1

\* C14: a call of scheduleRestart() adds 1 to restartCount and to
\* consecutiveRestarts, and the restart it schedules as the k-th consecutive
\* one is due after min(restartDelayMs * backoffMultiplier^(k-1),
\* maxRestartDelayMs): after exactly restartDelayMs for k = 1.
C14_BackoffDelay ==
    [][OneRestartCounted =>
          /\ wm'.consecutiveRestarts = CountedAs
          /\ (wm.lastRestartAt = Null => wm'.consecutiveRestarts = wm.consecutiveRestarts + 1)
          /\ \A x \in timers' \ timers :
                /\ x.due - now = Min(WorkerConfig.restartDelayMs
                                        * Pow(WorkerConfig.backoffMultiplier, CountedAs - 1),
                                     WorkerConfig.maxRestartDelayMs)
                /\ (CountedAs = 1 => x.due - now = WorkerConfig.restartDelayMs)
          /\ (CountedAs <= WorkerConfig.maxRestarts
                => Cardinality(timers' \ timers) = 1)]_vars

\* C14 witness: the second consecutive restart was just scheduled, backed
\* off from 1 to the cap of 2
C14_Witness ==
    /\ emitted = <<"crashed", "restarting">>
    /\ wm.consecutiveRestarts = 2
    /\ wm.restartCount = 2
    /\ \E x \in timers : x.due - now = WorkerConfig.maxRestartDelayMs
    /\ WorkerConfig.maxRestartDelayMs
          < WorkerConfig.restartDelayMs * WorkerConfig.backoffMultiplier

\* C15: when scheduleRestart() runs more than restartWindowMs after the last
\* restart, the crash counts as the first of a new episode: the count
\* becomes 1, the restart is due after restartDelayMs and auto-restart stays
\* on; inside the window (or before any restart) the count goes up by one.
C15_WindowResetsCount ==
    [][OneRestartCounted =>
          IF wm.lastRestartAt # Null
                /\ now - wm.lastRestartAt > WorkerConfig.restartWindowMs
          THEN /\ wm'.consecutiveRestarts = 1
               /\ wm'.shouldRestart = wm.shouldRestart
               /\ ~Emitted(emitted', "max-restarts")
               /\ \E x \in timers' \ timers :
                     /\ x.due = now + WorkerConfig.restartDelayMs
                     /\ timers' \ timers = {x}
          ELSE wm'.consecutiveRestarts = wm.consecutiveRestarts + 1]_vars

\* C15 witness: two restarts were counted, the second one more than
\* restartWindowMs after the restart of the first, and it counts as number 1
C15_Witness ==
    /\ emitted = <<"crashed", "restarting">>
    /\ wm.restartCount = 2
    /\ wm.consecutiveRestarts = 1
    /\ wm.lastRestartAt # Null
    /\ now - wm.lastRestartAt > WorkerConfig.restartWindowMs
    /\ \E x \in timers : x.due = now + WorkerConfig.restartDelayMs
    /\ \A x \in stops : ~x.restart

\* C16: when the monitor reports the worker dead, the manager sends SIGTERM
\* first; SIGKILL goes only to a worker that already got SIGTERM.
C16_GracefulBeforeForceful ==
    [][Emitted(emitted', "hung") =>
          \A p \in Pids :
              /\ (wm.worker = p /\ procs[p].status = "alive"
                    => procs'[p].signals # {})
              /\ ("SIGKILL" \in procs'[p].signals \ procs[p].signals
                    => "SIGTERM" \in procs[p].signals)]_vars

\* a crash was just handled and left the manager crashed with auto-restart
\* on and no stop requested, n pids are still unused, and every pending
\* restart timer is due before the clock of the model runs out
CrashedRestartable(n) ==
    /\ Emitted(emitted, "crashed")
    /\ wm.state = "crashed"
    /\ wm.shouldRestart
    /\ ~stopRequested
    /\ Cardinality(Unborn(procs)) = n
    /\ \A x \in timers : x.due <= MaxTime

\* C17: a crash that leaves the manager crashed with auto-restart on is
\* followed by a fork, by 'max-restarts', or by a stop() of the caller.
C17_CrashLeadsToRestart ==
    \A n \in 1..MaxWorkers :
        CrashedRestartable(n) ~>
            \/ Cardinality(Unborn(procs)) < n
            \/ Emitted(emitted, "max-restarts")
            \/ stopRequested

\* C17 witness: the restart of a crashed worker has just forked its successor
C17_Witness ==
    /\ wm.restartCount >= 1
    /\ wm.lastRestartAt = now
    /\ wm.worker # Null
    /\ procs[wm.worker].status = "alive"
    /\ procs[wm.worker].waiter = "timer"
    /\ ~stopRequested

\* the 'exit' event of a child runs in this step
WorkerExits ==
    \E p \in Pids : procs[p].status = "alive" /\ procs'[p].status = "exited"

\* C38: at most one restart timer is pending at any time, and the exit of a
\* worker adds at most 1 to restartCount and arms at most one restart timer.
C38_OneRestartPerTermination ==
    /\ [](Cardinality(timers) <= 1)
    /\ [][WorkerExits =>
            (/\ wm'.restartCount <= wm.restartCount + 1
             /\ Cardinality(timers' \ timers) <= 1)]_vars

\* C39: the shutdown timer of a stop() call that has completed (the exit of
\* the worker it was stopping resumed it) sends no signal when it expires,
\* whatever worker has been started since.
C39_StopTimerSparesNewWorker ==
    [][\A x \in stops \ stops' :
          ~x.awaiting => \A p \in Pids : procs'[p].signals = procs[p].signals]_vars

(***************************************************************************)
(* AIRecovery (src/src/supervisor/ai-recovery.ts)                          *)
(*                                                                         *)
(* Times are in ms, as in the source.  A confidence is kept in hundredths  *)
(* (0.75 is 75).  Of a decision's metadata only aiEnhanced is kept, and    *)
(* of a context only what the decision reads: the reason, the consecutive- *)
(* crash count and stats.worker.uptime.  A FailureRecord is kept without   *)
(* its decision, which the engine never reads back.                        *)
(***************************************************************************)
RecoveryReason == {"crash", "hang", "max-restarts"}

RecoveryAction == {"restart", "wait", "escalate", "give-up"}

\* DEFAULT_CONFIG, with a history of 3 records and with or without an apiKey
AIRecoveryConfigs ==
    {[enabled |-> TRUE, apiKey |-> k, maxWaitMs |-> 5 * 60 * 1000,
      confidenceThreshold |-> 70, historySize |-> 3] : k \in BOOLEAN}

\* new AIRecovery(config)
AIRecovery(config) == [config |-> config, history |-> <<>>]

\* no decide() has returned yet
NoContext == [reason |-> "none", consecutiveCrashes |-> 0, uptime |-> 0]

NoDecision ==
    [action |-> "none", reason |-> "", confidence |-> 0, waitMs |-> Null,
     timestamp |-> Null, aiEnhanced |-> "absent"]

\* a RecoveryDecision built by the heuristics
Decision(action, reason, confidence, waitMs, t) ==
    [action |-> action, reason |-> reason, confidence |-> confidence,
     waitMs |-> waitMs, timestamp |-> t, aiEnhanced |-> "absent"]

\* getRecentFailures(windowMs): the records stamped at or after the cutoff
getRecentFailures(history, windowMs, t) ==
    SelectSeq(history, LAMBDA f : f.timestamp >= t - windowMs)

\* makeHeuristicDecision(context) at time t
makeHeuristicDecision(a, context, t) ==
    LET reason == context.reason
        consecutiveCrashes == context.consecutiveCrashes
        uptime == context.uptime
        recentFailures == getRecentFailures(a.history, 5 * 60 * 1000, t)
        failureRate == Len(recentFailures)
        isRapidFailure == failureRate >= 3
        isBootLoop == Len(SelectSeq(recentFailures, LAMBDA f : f.uptime < 10000)) >= 3
    IN  IF isBootLoop
        THEN Decision("escalate", "Boot loop detected", 90, Null, t)
        ELSE IF isRapidFailure
        THEN Decision("wait", "Rapid failures detected", 80,
                      Min(30000 * Pow(2, Min(consecutiveCrashes, 5)), a.config.maxWaitMs), t)
        ELSE IF reason = "hang"
        THEN Decision("restart", "Worker hung", 85, Null, t)
        ELSE IF reason = "max-restarts"
        THEN Decision("escalate", "Maximum restart attempts exceeded", 95, Null, t)
        ELSE IF uptime > 60000
        THEN Decision("restart", "Worker was stable before crash", 75, Null, t)
        ELSE IF consecutiveCrashes <= 3
        THEN Decision("restart", "Early crash", 70, 1000 * consecutiveCrashes, t)
        ELSE IF consecutiveCrashes <= 7
        THEN Decision("wait", "Multiple crashes", 65,
                      Min(10000 * consecutiveCrashes, a.config.maxWaitMs), t)
        ELSE Decision("give-up", "Too many consecutive crashes", 80, Null, t)

\* makeAIDecision(context, heuristicDecision): no AI call is implemented
makeAIDecision(context, heuristicDecision) ==
    [heuristicDecision EXCEPT !.aiEnhanced = "false"]

\* the while loop of recordDecision: shift() until the history fits
RECURSIVE trimHistory(_, _)
trimHistory(history, historySize) ==
    IF Len(history) > historySize
    THEN trimHistory(Tail(history), historySize)
    ELSE history

\* a recordDecision that evicts the newest record of a full history
recordDecision_newest(a, context, decision, t) ==
    LET record == [timestamp |-> t, reason |-> context.reason,
                   uptime |-> context.uptime]
    IN  [a EXCEPT !.history =
                     SubSeq(Append(a.history, record), 1,
                            Min(Len(a.history) + 1, a.config.historySize))]

\* recordDecision(context, decision) at time t
recordDecision(a, context, decision, t) ==
    LET record == [timestamp |-> t, reason |-> context.reason,
                   uptime |-> context.uptime]
    IN  [a EXCEPT !.history = trimHistory(Append(a.history, record), a.config.historySize)]

\* decide(context) at time t: the engine afterwards and the decision returned
decide(a, context, t) ==
    LET heuristicDecision == makeHeuristicDecision(a, context, t)
        decision == IF a.config.enabled /\ a.config.apiKey
                    THEN makeAIDecision(context, heuristicDecision)
                    ELSE heuristicDecision
    IN  [ai |-> recordDecision(a, context, decision, t), decision |-> decision]

\* clearHistory()
clearHistory(a) == [a EXCEPT !.history = <<>>]

(***************************************************************************)
(* Calls on an engine used on its own.                                     *)
(***************************************************************************)
\* the uptimes a failed worker is reported with: under the 10 s mark of the
\* rules, at their 60 s mark and over it
Uptimes == {9999, 60000, 60001}

\* the consecutive-crash counts a context carries: around the 3 and the 7 of
\* the rules
CrashCounts == {3, 4, 7, 8}

\* the time between two calls: the 5 minute window of the rules
ClockSteps == {300000}

RecoveryContexts ==
    [reason : RecoveryReason, consecutiveCrashes : CrashCounts, uptime : Uptimes]

\* time passes between two calls; what the last call returned is over
RecoveryTick ==
    /\ \E d \in ClockSteps :
          /\ now + d <= MaxRecoveryTime
          /\ now' = now + d
    /\ aiContext' = NoContext
    /\ aiDecision' = NoDecision
    /\ UNCHANGED <<ai, exceptRecovery>>

\* a caller awaits decide(context)
DecideCall ==
    /\ \E context \in RecoveryContexts :
          LET r == decide(ai, context, now)
          IN  /\ ai' = r.ai
              /\ aiContext' = context
              /\ aiDecision' = r.decision
    /\ UNCHANGED <<now, exceptRecovery>>

\* a caller calls clearHistory()
ClearHistoryCall ==
    /\ ai.history # <<>>
    /\ ai' = clearHistory(ai)
    /\ UNCHANGED <<now, aiContext, aiDecision, exceptRecovery>>

(***************************************************************************)
(* Statements about the engine.                                            *)
(***************************************************************************)
\* the number of failures recorded in the last ms milliseconds
RecordedWithin(history, ms) ==
    Cardinality({i \in 1..Len(history) : now - history[i].timestamp <= ms})

\* the number of those whose worker had been up for less than uptime
RecordedWithinBelow(history, ms, uptime) ==
    Cardinality({i \in 1..Len(history) :
                    /\ now - history[i].timestamp <= ms
                    /\ history[i].uptime < uptime})

\* a step of decide(): only recordDecision() adds a record to the history
Decides ==
    /\ ai'.history # ai.history
    /\ ai'.history # <<>>

\* the decision a decide() just returned has this action and confidence
Decided(action, confidence) ==
    /\ aiDecision'.action = action
    /\ aiDecision'.confidence = confidence

\* the last n elements of a sequence, in their order
LastOf(seq, n) ==
    IF Len(seq) > n THEN SubSeq(seq, Len(seq) - n + 1, Len(seq)) ELSE seq

\* C21: every decide(), heuristic or AI-enhanced, appends exactly one record
\* (of its context, stamped with the time of the call) to the failure
\* history, and the history never holds more than historySize records: of a
\* full history the oldest record goes and the most recent historySize
\* records stay, in the order they arrived.
C21_HistoryIsBounded ==
    /\ [](Len(ai.history) <= ai.config.historySize)
    /\ [][(now' = now /\ ai'.history # <<>>)
          => /\ aiDecision'.aiEnhanced = (IF ai.config.apiKey THEN "false" ELSE "absent")
             /\ ai'.history =
                  LastOf(Append(ai.history,
                                [timestamp |-> now,
                                 reason |-> aiContext'.reason,
                                 uptime |-> aiContext'.uptime]),
                         ai.config.historySize)]_vars

\* an AI-enhanced decision was made on three recent failures, that is on a
\* full history, whose oldest record has gone for the record of this call
C21_Witness ==
    /\ aiDecision.reason = "Rapid failures detected"
    /\ aiDecision.aiEnhanced = "false"
    /\ Len(ai.history) = ai.config.historySize
    /\ ai.history[Len(ai.history)] =
          [timestamp |-> now, reason |-> aiContext.reason, uptime |-> aiContext.uptime]

\* C20: a crash of a worker that had been up for 60000 ms or more, decided
\* while fewer than 3 failures are recorded in the last 5 minutes, gives
\* restart with confidence 0.75, whatever the consecutive-crash count.
C20_WasStableRestarts ==
    [][(/\ Decides
        /\ aiContext'.reason = "crash"
        /\ aiContext'.uptime >= 60000
        /\ RecordedWithin(ai.history, 5 * 60 * 1000) < 3)
          => Decided("restart", 75)]_vars

\* The same for a worker that had been up for more than 60000 ms.
WasStableOverAMinute ==
    [][(/\ Decides
        /\ aiContext'.reason = "crash"
        /\ aiContext'.uptime > 60000
        /\ RecordedWithin(ai.history, 5 * 60 * 1000) < 3)
          => Decided("restart", 75)]_vars

\* the decision just returned is that of the first rule that matches, in
\* the order of the rules, for a context whose worker counts as having been
\* stable when wasStable holds
FirstMatchingRule(wasStable) ==
    LET recent == 5 * 60 * 1000
    IN  IF RecordedWithinBelow(ai.history, recent, 10000) >= 3
        THEN Decided("escalate", 90)
        ELSE IF RecordedWithin(ai.history, recent) >= 3
        THEN Decided("wait", 80)
        ELSE IF aiContext'.reason = "hang"
        THEN Decided("restart", 85)
        ELSE IF aiContext'.reason = "max-restarts"
        THEN Decided("escalate", 95)
        ELSE IF wasStable
        THEN Decided("restart", 75)
        ELSE IF aiContext'.consecutiveCrashes <= 3
        THEN Decided("restart", 70)
        ELSE IF aiContext'.consecutiveCrashes <= 7
        THEN Decided("wait", 65)
        ELSE Decided("give-up", 80)

\* C19: for every reason, consecutive-crash count, uptime and history,
\* decide() returns the action and confidence of the first matching rule in
\* the order boot-loop, rapid failures, hang, max-restarts, was-stable (the
\* worker ran for 60 s or more), at most 3 consecutive crashes, at most 7,
\* give-up.
C19_FirstMatchingRule ==
    [][Decides => FirstMatchingRule(aiContext'.uptime >= 60000)]_vars

\* The same with a worker counted as stable when it ran for more than 60 s.
FirstMatchingRuleOverAMinute ==
    [][Decides => FirstMatchingRule(aiContext'.uptime > 60000)]_vars

\* 3 failures recorded in the last 5 minutes, each with an uptime under
\* 10000 ms, give escalate with confidence 0.9 whatever the reason and the
\* consecutive-crash count.
BootLoopEscalates ==
    [][(/\ Decides
        /\ RecordedWithinBelow(ai.history, 5 * 60 * 1000, 10000) >= 3)
          => Decided("escalate", 90)]_vars

\* a boot loop was just decided for a context that the later rules would
\* have answered otherwise
BootLoopDecided ==
    /\ aiDecision.action = "escalate"
    /\ aiDecision.confidence = 90
    /\ aiContext.reason = "hang"
    /\ aiContext.uptime > 60000
    /\ Len(ai.history) = 3

(***************************************************************************)
(* Supervisor (src/src/supervisor/heartbeat-monitor.ts)                    *)
(*                                                                         *)
(* The supervisor's methods are operators on s: the world of its manager   *)
(* (s.w), its own fields (s.sup), its start() and stop() calls that await  *)
(* the manager (s.pending), the events it emitted in this turn, its        *)
(* recovery engine (s.ai), the time of the turn (s.t) and the calls of      *)
(* handleWorkerFailure that await the engine's decision (s.awaiting).      *)
(***************************************************************************)
SupervisorState == {"stopped", "starting", "running", "stopping", "failed"}

\* the supervisor's config: DEFAULT_CONFIG, with the cooldown in ticks
SupervisorConfig ==
    [ aiRecoveryEnabled |-> TRUE,
      maxConsecutiveCrashes |-> 5,
      recoveryDecisionCooldownMs |-> 1 ]

\* new Supervisor(config): the field initialisers
Supervisor ==
    [ config |-> SupervisorConfig,
      state |-> "stopped",
      startedAt |-> Null,
      consecutiveCrashes |-> 0,
      recoveryDecisions |-> <<>>,
      lastRecoveryAction |-> "null",
      lastRecoveryDecisionAt |-> Null,
      shutdownRequested |-> FALSE ]

\* no start() or stop() of the supervisor awaits the manager; otherwise the
\* pids of the workers whose start / whose exit is awaited
NonePending == [start |-> {}, stop |-> {}]

\* the state one turn of the event loop works on, with a supervisor
Supervised ==
    [w |-> World, sup |-> sup, pending |-> supPending, emitted |-> <<>>,
     ai |-> ai, t |-> now, awaiting |-> <<>>]

\* this.emit(event, ...) of the supervisor
SupervisorEmit(s, e) == [s EXCEPT !.emitted = Append(@, e)]

\* WorkerManager.getStats() at time t: of the stats the engine reads uptime
WorkerManager_getStats(w, t) ==
    [uptime |-> IF w.wm.startedAt # Null /\ w.wm.startedAt # 0
                THEN t - w.wm.startedAt
                ELSE 0]

\* the end of handleWorkerFailure: the test of the consecutive crashes
crashLimit(s) ==
    IF s.sup.consecutiveCrashes >= s.sup.config.maxConsecutiveCrashes
    THEN SupervisorEmit([s EXCEPT !.sup.state = "failed"], "failed")
    ELSE s


\* the handler waits for the decision that decide() has made: r is the
\* engine afterwards and the decision, kept with the Date.now() of the handler
decideAwaited(s, r) ==
    [s EXCEPT !.ai = r.ai,
              !.awaiting = Append(@, [decision |-> r.decision, now |-> s.t])]

\* handleWorkerFailure(reason, context) up to its await: the engine has no
\* apiKey, so that decide() has recorded and returned its decision when the
\* handler starts to wait for it
handleWorkerFailure(s, reason) ==
    IF s.sup.shutdownRequested THEN s
    ELSE IF /\ s.sup.lastRecoveryDecisionAt # Null
            /\ s.sup.lastRecoveryDecisionAt # 0
            /\ s.t - s.sup.lastRecoveryDecisionAt
                  < s.sup.config.recoveryDecisionCooldownMs
    THEN s
    ELSE IF s.sup.config.aiRecoveryEnabled
    THEN decideAwaited(s, decide(s.ai,
                                 [reason |-> reason,
                                  consecutiveCrashes |-> s.sup.consecutiveCrashes,
                                  uptime |-> WorkerManager_getStats(s.w, s.t).uptime],
                                 s.t))
    ELSE crashLimit(s)

\* what the listener of event e of the manager does before it handles a
\* failure; those of 'heartbeat' and 'restarting' only log
eventNoted(s, e) ==
    IF e = "started"
    THEN SupervisorEmit([s EXCEPT !.sup.consecutiveCrashes = 0], "worker-started")
    ELSE IF e = "stopped"
    THEN SupervisorEmit(s, "worker-stopped")
    ELSE IF e = "crashed"
    THEN SupervisorEmit([s EXCEPT !.sup.consecutiveCrashes = @ + 1], "worker-crashed")
    ELSE IF e = "hung"
    THEN SupervisorEmit(s, "worker-hung")
    ELSE s

\* the reason the listener of failure event e hands to handleWorkerFailure
failureReason(e) ==
    IF e = "crashed" THEN "crash" ELSE IF e = "hung" THEN "hang" ELSE "max-restarts"

\* the listeners of setupWorkerListeners for event e of the manager
onWorkerEvent(s, e) ==
    IF e \in {"crashed", "hung", "max-restarts"}
    THEN handleWorkerFailure(eventNoted(s, e), failureReason(e))
    ELSE eventNoted(s, e)

RECURSIVE heard(_, _)
heard(s, events) ==
    IF events = <<>> THEN s
    ELSE heard(onWorkerEvent(s, Head(events)), Tail(events))

\* the manager went from s.w to w: the listeners run on what it emitted,
\* each up to its first await
listened(s, w) ==
    heard([s EXCEPT !.w = w],
          SubSeq(w.emitted, Len(s.w.emitted) + 1, Len(w.emitted)))

\* stop() after its await
Supervisor_stopResumed(s) ==
    SupervisorEmit([s EXCEPT !.sup.state = "stopped", !.sup.startedAt = Null],
                   "stopped")

\* stop() at its await of the manager's stop(): it waits when the manager
\* waits for its worker to exit, and goes on to its end otherwise
stopAwaited(begun, stopped) ==
    IF stopped.w.stops # begun.w.stops
    THEN [stopped EXCEPT !.pending.stop = @ \cup {begun.w.wm.worker}]
    ELSE Supervisor_stopResumed(stopped)

\* executeRecoveryAction(decision): on give-up the state is set and stop()
\* is awaited, which sets the state and the shutdown request in its turn
\* (the handlers that still wait for their decision go on after it)
giveUp(failed) ==
    stopAwaited([failed EXCEPT !.sup.state = "stopping",
                               !.sup.shutdownRequested = TRUE],
                listened([failed EXCEPT !.sup.state = "stopping",
                                        !.sup.shutdownRequested = TRUE],
                         WorkerManager_stop(failed.w, FALSE, failed.t)))

executeRecoveryAction(s, decision) ==
    IF decision.action # "give-up" THEN s
    ELSE giveUp([s EXCEPT !.sup.state = "failed"])

\* the supervisor keeps its last RecoveryDecisionsKept decisions (100 in
\* the source)
RecoveryDecisionsKept == 2

\* handleWorkerFailure after its await of decide(), to its end
handleWorkerFailure_resumed(s, k) ==
    LET pushed == Append(s.sup.recoveryDecisions, k.decision)
        noted == [s EXCEPT !.sup.recoveryDecisions =
                                IF Len(pushed) > RecoveryDecisionsKept
                                THEN Tail(pushed)
                                ELSE pushed,
                           !.sup.lastRecoveryDecisionAt = k.now,
                           !.sup.lastRecoveryAction = k.decision.action]
    IN  crashLimit(executeRecoveryAction(SupervisorEmit(noted, "recovery-decision"),
                                         k.decision))

\* the handlers that wait for their decision resume, the first first
RECURSIVE failuresResumed(_)
failuresResumed(s) ==
    IF s.awaiting = <<>> THEN s
    ELSE failuresResumed(handleWorkerFailure_resumed([s EXCEPT !.awaiting = Tail(@)],
                                                     Head(s.awaiting)))

\* the manager went from s.w to w: the listeners hear what it emitted, and
\* the failure handlers among them run to their end before anything else
\* that the turn has made runnable
managed(s, w) == failuresResumed(listened(s, w))

\* start() after its await, when the manager's start() resolved
Supervisor_startResumed(s, t) ==
    SupervisorEmit([s EXCEPT !.sup.state = "running", !.sup.startedAt = t],
                   "started")

\* start() after its await, when the manager's start() rejected: the catch
Supervisor_startRejected(s) == [s EXCEPT !.sup.state = "failed"]

\* start(): up to its await when the manager forks a worker, to its end
\* when the manager's start() returns at once
startAwaited(begun, started, t) ==
    IF Unborn(started.w.procs) # Unborn(begun.w.procs)
    THEN [started EXCEPT !.pending.start = @ \cup {started.w.wm.worker}]
    ELSE Supervisor_startResumed(started, t)

Supervisor_start(s, t) ==
    IF s.sup.state = "running" \/ s.sup.state = "starting" THEN s
    ELSE startAwaited([s EXCEPT !.sup.state = "starting",
                                !.sup.shutdownRequested = FALSE],
                      managed([s EXCEPT !.sup.state = "starting",
                                        !.sup.shutdownRequested = FALSE],
                              WorkerManager_start(s.w, t)),
                      t)

\* a stop() that notes the shutdown request before it looks at the state
Supervisor_stop_noting(s, t) ==
    IF s.sup.state = "stopped" \/ s.sup.state = "stopping"
    THEN [s EXCEPT !.sup.shutdownRequested = TRUE]
    ELSE stopAwaited([s EXCEPT !.sup.state = "stopping",
                               !.sup.shutdownRequested = TRUE],
                     managed([s EXCEPT !.sup.state = "stopping",
                                       !.sup.shutdownRequested = TRUE],
                             WorkerManager_stop(s.w, FALSE, t)))

\* stop(): up to its await when the manager waits for its worker to exit,
\* to its end when the manager's stop() returns at once
Supervisor_stop(s, t) ==
    IF s.sup.state = "stopped" \/ s.sup.state = "stopping" THEN s
    ELSE stopAwaited([s EXCEPT !.sup.state = "stopping",
                               !.sup.shutdownRequested = TRUE],
                     managed([s EXCEPT !.sup.state = "stopping",
                                       !.sup.shutdownRequested = TRUE],
                             WorkerManager_stop(s.w, FALSE, t)))

\* the manager's continuations of the exit of child p (its stop() that
\* awaited the exit, its start() that awaited the worker with waiter)
exitAwaited(s, p, waiter, t) ==
    managed(s, spawnRejected(exitResumesStops(s.w, p, t), waiter, t))

\* the supervisor's stop() that awaited the exit of child p resumes
stopSettled(s, p) ==
    IF p \in s.pending.stop
    THEN Supervisor_stopResumed([s EXCEPT !.pending.stop = @ \ {p}])
    ELSE s

\* the catch of the supervisor's start() that awaited the start of child p
startSettled(s, p) ==
    IF p \in s.pending.start
    THEN Supervisor_startRejected([s EXCEPT !.pending.start = @ \ {p}])
    ELSE s

\* the 'exit' event of child p with a supervisor: the manager's turn, then
\* the supervisor's stop() that awaited the exit resumes, then the catch of
\* its start() that awaited the worker's start
supervisedExit(s, p, how, t) ==
    startSettled(
        stopSettled(
            exitAwaited(managed(s, handleWorkerExit(
                                       [s.w EXCEPT !.procs[p] =
                                            [NoProcess EXCEPT !.status = "exited"]],
                                       how.code, how.signal, t)),
                        p, s.w.procs[p].waiter, t),
            p),
        p)

\* the ready message of child p with a supervisor: the manager's turn, then
\* the supervisor's start() that awaited it resumes
readySettled(up, p, t) ==
    IF p \notin up.pending.start THEN up
    ELSE IF Emitted(up.w.emitted, "started")
    THEN Supervisor_startResumed([up EXCEPT !.pending.start = @ \ {p}], t)
    ELSE Supervisor_startRejected([up EXCEPT !.pending.start = @ \ {p}])

supervisedReady(s, p, t) == readySettled(managed(s, readied(s.w, p, t)), p, t)

\* the supervised world as the next state
SupervisedCommit(s) ==
    /\ CommitManager(s.w)
    /\ sup' = s.sup
    /\ supPending' = s.pending
    /\ supEmitted' = s.emitted
    /\ supFailed' = (supFailed \/ Emitted(s.emitted, "failed"))
    /\ ai' = s.ai
    /\ UNCHANGED <<now, aiContext, aiDecision, exceptSupervisor>>

(***************************************************************************)
(* Turns of the event loop of a Supervisor over a worker that does not     *)
(* fail: it reports ready before its startup timeout, sends no heartbeats, *)
(* exits as soon as it is told to shut down, sending nothing more, and on  *)
(* nothing else.  The caller lets a stop() of the manager finish before it *)
(* calls start().                                                          *)
(***************************************************************************)
\* a caller invokes start() on the supervisor
SupervisorStartCall ==
    /\ CanFork
    /\ \A x \in stops : ~x.awaiting
    /\ supLastCall' = "start"
    /\ SupervisedCommit(Supervisor_start(Supervised, now))

\* a caller invokes stop() on the supervisor
SupervisorStopCall ==
    /\ supLastCall' = "stop"
    /\ SupervisedCommit(Supervisor_stop(Supervised, now))

\* child p reports ready
HealthyReady ==
    \E p \in Alive(procs) :
        /\ ~procs[p].shutdown
        /\ procs[p].waiter # "none"
        /\ UNCHANGED supLastCall
        /\ SupervisedCommit(supervisedReady(Supervised, p, now))

\* child p, told to shut down, exits with code 0
HealthyExit ==
    \E p \in Alive(procs) :
        /\ procs[p].shutdown
        /\ UNCHANGED supLastCall
        /\ SupervisedCommit(supervisedExit(Supervised, p,
                                           [code |-> 0, signal |-> "null"], now))

\* time passes once the worker told to shut down has exited
HealthyTick ==
    /\ \A p \in Alive(procs) : ~procs[p].shutdown
    /\ Tick

(***************************************************************************)
(* Turns of the event loop of a Supervisor over a worker that fails: it    *)
(* exits with code 1 or by a signal it was sent at any time, before or     *)
(* after it reported ready, or it stays and sends no heartbeats.  The      *)
(* callers use start() and stop() of the supervisor only.  The child       *)
(* object of a worker that has exited is garbage, and its pid is free for  *)
(* a later fork.                                                           *)
(***************************************************************************)
\* the supervisor counts at most MaxCrashes consecutive crashes and the
\* manager at most MaxRestartCount restarts
MaxCrashes == 9
MaxRestartCount == 9

\* the configs a supervisor is constructed with: a crash limit under and
\* one over the 8 consecutive crashes at which the engine gives up, and a
\* supervisor without the engine
SupervisorConfigs ==
    {[SupervisorConfig EXCEPT !.maxConsecutiveCrashes = 2],
     [SupervisorConfig EXCEPT !.maxConsecutiveCrashes = 9],
     [SupervisorConfig EXCEPT !.maxConsecutiveCrashes = 2,
                              !.aiRecoveryEnabled = FALSE]}

\* Date.now() stays within MaxSupervisionTime, and within MaxCrashLoopTime
\* once the supervisor has counted a crash or the manager a restart
MaxSupervisionTime == 3
MaxCrashLoopTime == 2

\* time passes
SupervisionTick ==
    /\ now < (IF wm.restartCount = 0 /\ sup.consecutiveCrashes = 0
              THEN MaxSupervisionTime
              ELSE MaxCrashLoopTime)
    /\ Tick

reaped(s) ==
    [s EXCEPT !.w.procs = [p \in Pids |-> IF s.w.procs[p].status = "exited"
                                          THEN NoProcess
                                          ELSE s.w.procs[p]]]

\* a turn of the manager with the supervisor listening
SupervisedTurn(w) ==
    /\ UNCHANGED supLastCall
    /\ SupervisedCommit(managed(Supervised, w))

\* a caller invokes start() on a supervisor that is stopped or has failed
SupervisorStartAgain ==
    /\ sup.state \in {"stopped", "failed"}
    /\ SupervisorStartCall

\* child p exits: with code 1, by a signal it was sent, or with code 0 when
\* it was told to shut down
SupervisedExit ==
    /\ sup.consecutiveCrashes < MaxCrashes
    /\ wm.restartCount < MaxRestartCount
    /\ \E p \in Alive(procs) :
       \E how \in {[code |-> 1, signal |-> "null"]}
                   \cup {[code |-> 0, signal |-> "null"] : x \in {1} \cap
                                    (IF procs[p].shutdown THEN {1} ELSE {})}
                   \cup {[code |-> Null, signal |-> sig] : sig \in procs[p].signals} :
          /\ UNCHANGED supLastCall
          /\ SupervisedCommit(reaped(supervisedExit(Supervised, p, how, now)))

\* the startup timeout of child p expires
SupervisedStartupTimeout ==
    /\ wm.restartCount < MaxRestartCount
    /\ \E p \in Pids :
          /\ procs[p].startupTimer # Null
          /\ now >= procs[p].startupTimer
          /\ UNCHANGED supLastCall
          /\ SupervisedCommit(
                 startSettled(managed(Supervised,
                                      spawnRejected([World EXCEPT
                                                       !.procs[p].waiter = "none",
                                                       !.procs[p].startupTimer = Null],
                                                    procs[p].waiter, now)),
                              p))

\* a restart timer expires
SupervisedRestartTimerFire ==
    /\ CanFork
    /\ \E x \in timers :
          /\ now >= x.due
          /\ SupervisedTurn(spawnWorker([World EXCEPT
                                           !.timers = @ \ {x},
                                           !.wm.restartTimer = Null,
                                           !.wm.lastRestartAt = now,
                                           !.hb = HeartbeatMonitor_reset(@),
                                           !.deadRun = 0,
                                           !.lastArrival = Null],
                                        "timer", now))


\* the setInterval callback of the manager's heartbeat monitor
SupervisedHeartbeatCheck ==
    /\ hb.checkTimer # Null
    /\ now >= hb.checkTimer
    /\ LET r == checkHeartbeat(hb, now)
           checked == [World EXCEPT
                         !.hb = [r.hb EXCEPT !.checkTimer = now + hb.config.intervalMs],
                         !.fired = FiredBy(r),
                         !.deadRun = @ + (IF r.dead THEN 1 ELSE 0)]
       IN  SupervisedTurn(IF r.dead
                          THEN handleHungWorker(checked, r.hb.missedCount)
                          ELSE checked)

(***************************************************************************)
(* Statements about the supervisor.                                        *)
(***************************************************************************)
\* the manager of the supervisor emits no failure event ...
NoFailureEvent ==
    \A e \in {"crashed", "hung", "max-restarts", "restarting"} : ~Emitted(emitted, e)

\* ... and the supervisor hears every 'started' and 'stopped' it emits
EveryEventHeard ==
    /\ Emitted(emitted, "started") => Emitted(supEmitted, "worker-started")
    /\ Emitted(emitted, "stopped") => Emitted(supEmitted, "worker-stopped")

\* C18: stop() on a supervisor that is stopped, and stop() on a manager that
\* is stopped, change no field of the supervisor, of the manager, of its
\* monitor, of its workers or of the recovery engine, arm or clear no timer,
\* leave every pending call as it is and emit no event.
C18_StopWhenStoppedIsNoOp ==
    [][/\ (SupervisorStopCall /\ sup.state = "stopped")
            => /\ UNCHANGED <<sup, supPending, wm, hb, procs, timers, stops, ai>>
               /\ supEmitted' = <<>>
               /\ emitted' = <<>>
       /\ (StopCall /\ wm.state = "stopped")
            => /\ UNCHANGED <<sup, supPending, wm, hb, procs, timers, stops, ai>>
               /\ supEmitted' = <<>>
               /\ emitted' = <<>>]_vars

\* C18 witness: stop() was the last call on a supervisor that is stopped and
\* has never got past the state test of stop() since its last start(), and
\* stop() was called on its manager, which is stopped and has never got
\* past the test of its stop() either
C18_Witness ==
    /\ supLastCall = "stop"
    /\ sup.state = "stopped"
    /\ ~sup.shutdownRequested
    /\ stopRequested
    /\ wm.state = "stopped"
    /\ wm.shouldRestart

(***************************************************************************)
(* BoundedQueue, AsyncBoundedQueue and PriorityBoundedQueue                *)
(* (src/src/resilience/bounded-queue.ts)                                   *)
(*                                                                         *)
(* The element type of every queue of the model is the one the priority    *)
(* variant stores, { item, priority }; the plain and the asynchronous      *)
(* queue are given entries of priority 0.  NoEntry stands for undefined.   *)
(* A call is an operator from the queue object to a "run": the object      *)
(* after the call, what the call returned or that it threw, and the        *)
(* callbacks it invoked, in order.                                         *)
(***************************************************************************)
OverflowStrategy == {"reject", "drop-oldest", "drop-newest"}

QueueVariants == {"BoundedQueue", "AsyncBoundedQueue", "PriorityBoundedQueue"}

NoEntry == [item |-> Null, priority |-> Null]

\* new BoundedQueue(config), new AsyncBoundedQueue(config) (waiters = []),
\* new PriorityBoundedQueue(config)
BoundedQueue(variant, config) ==
    [variant |-> variant,
     config |-> config,
     queue |-> <<>>,
     totalEnqueued |-> 0,
     totalDequeued |-> 0,
     totalDropped |-> 0,
     totalRejected |-> 0,
     highWaterMarkHits |-> 0,
     wasAboveHighWaterMark |-> FALSE,
     waiters |-> <<>>]

\* one invocation of a callback: config.onDrop(entry, reason),
\* config.onHighWaterMark(size), config.onLowWaterMark(size), or the
\* resolve(entry) of the promise of consumer `arg`
Called(callback, entry, reason, arg) ==
    [callback |-> callback, entry |-> entry, reason |-> reason, arg |-> arg]

Done(q, returned, entry, threw, calls) ==
    [q |-> q, returned |-> returned, entry |-> entry, threw |-> threw, calls |-> calls]

NoOutcome ==
    [op |-> "none", given |-> NoEntry, returned |-> "none", entry |-> NoEntry,
     threw |-> FALSE, calls |-> <<>>]

\* Math.floor(maxSize * 0.8) and Math.floor(maxSize * 0.2)
highWaterMark(q) == (q.config.maxSize * 8) \div 10

lowWaterMark(q) == (q.config.maxSize * 2) \div 10

\* get size()
size(q) == Len(q.queue)

\* the low-water check that enqueue() and dequeue() end with
belowLowWaterMark(q) == size(q) < lowWaterMark(q) /\ q.wasAboveHighWaterMark

\* case 'reject' of a full queue: it counts the rejection without throwing
rejected_quietly(q) ==
    Done(q, "false", NoEntry, FALSE, <<>>)

\* case 'reject' of a full queue: totalRejected++; throw new QueueFullError
rejected(q) ==
    Done([q EXCEPT !.totalRejected = @ + 1], "none", NoEntry, TRUE, <<>>)

\* BoundedQueue.enqueue(item)
BoundedQueue_enqueue(q, item) ==
    LET full == size(q) >= q.config.maxSize
        strategy == q.config.overflowStrategy
    IN  IF full /\ strategy = "reject"
        THEN rejected(q)
        ELSE IF full /\ strategy = "drop-newest"
        THEN Done([q EXCEPT !.totalDropped = @ + 1], "false", NoEntry, FALSE,
                  <<Called("onDrop", item, "overflow-newest", Null)>>)
        ELSE
        LET drops == full /\ q.queue # <<>>
            shifted == IF drops
                       THEN [q EXCEPT !.queue = Tail(@), !.totalDropped = @ + 1]
                       ELSE q
            pushed == [shifted EXCEPT !.queue = Append(@, item),
                                      !.totalEnqueued = @ + 1]
            high == size(pushed) >= highWaterMark(q) /\ ~pushed.wasAboveHighWaterMark
            raised == IF high
                      THEN [pushed EXCEPT !.wasAboveHighWaterMark = TRUE,
                                          !.highWaterMarkHits = @ + 1]
                      ELSE pushed
            low == belowLowWaterMark(raised)
            lowered == IF low
                       THEN [raised EXCEPT !.wasAboveHighWaterMark = FALSE]
                       ELSE raised
        IN  Done(lowered, "true", NoEntry, FALSE,
                 (IF drops
                  THEN <<Called("onDrop", Head(q.queue), "overflow-oldest", Null)>>
                  ELSE <<>>)
                 \o (IF high
                     THEN <<Called("onHighWaterMark", NoEntry, "", size(pushed))>>
                     ELSE <<>>)
                 \o (IF low
                     THEN <<Called("onLowWaterMark", NoEntry, "", size(pushed))>>
                     ELSE <<>>))

\* dequeue()
dequeue(q) ==
    IF q.queue = <<>>
    THEN Done(q, "undefined", NoEntry, FALSE, <<>>)
    ELSE LET shifted == [q EXCEPT !.queue = Tail(@), !.totalDequeued = @ + 1]
             low == belowLowWaterMark(shifted)
         IN  Done(IF low THEN [shifted EXCEPT !.wasAboveHighWaterMark = FALSE]
                         ELSE shifted,
                  "entry", Head(q.queue), FALSE,
                  IF low
                  THEN <<Called("onLowWaterMark", NoEntry, "", size(shifted))>>
                  ELSE <<>>)

\* clear(): it returns the entries it removed
clear(q) ==
    Done([q EXCEPT !.queue = <<>>, !.wasAboveHighWaterMark = FALSE],
         "entries", NoEntry, FALSE, <<>>)

\* an override that serves the consumer that came last
AsyncBoundedQueue_enqueue_lifo(q, item) ==
    IF q.waiters # <<>>
    THEN Done([q EXCEPT !.waiters = SubSeq(@, 1, Len(@) - 1)], "true", NoEntry, FALSE,
              <<Called("resolve", item, "", q.waiters[Len(q.waiters)].consumer)>>)
    ELSE BoundedQueue_enqueue(q, item)

\* AsyncBoundedQueue.enqueue(item): the override
AsyncBoundedQueue_enqueue(q, item) ==
    IF q.waiters # <<>>
    THEN Done([q EXCEPT !.waiters = Tail(@)], "true", NoEntry, FALSE,
              <<Called("resolve", item, "", Head(q.waiters).consumer)>>)
    ELSE BoundedQueue_enqueue(q, item)

\* this.enqueue(item)
enqueue(q, item) ==
    IF q.variant = "AsyncBoundedQueue"
    THEN AsyncBoundedQueue_enqueue(q, item)
    ELSE BoundedQueue_enqueue(q, item)

\* tryEnqueue(item)
tryEnqueue(q, item) ==
    LET r == enqueue(q, item)
    IN  IF r.threw THEN [r EXCEPT !.threw = FALSE, !.returned = "false"] ELSE r

\* dequeueAsync(timeoutMs) of a consumer; `timed` is timeoutMs !== undefined
dequeueAsync(q, consumer, timed) ==
    LET r == dequeue(q)
    IN  IF r.returned = "entry"
        THEN [r EXCEPT !.calls = @ \o <<Called("resolve", r.entry, "", consumer)>>]
        ELSE Done([q EXCEPT !.waiters =
                            Append(@, [consumer |-> consumer, timed |-> timed])],
                  "pending", NoEntry, FALSE, <<>>)

\* a timeout callback that resolves its consumer and leaves it waiting
waiterTimedOut_staying(q, i) ==
    Done(q, "none", NoEntry, FALSE,
         <<Called("resolve", NoEntry, "", q.waiters[i].consumer)>>)

\* the setTimeout callback of dequeueAsync for the i-th waiter
waiterTimedOut(q, i) ==
    Done([q EXCEPT !.waiters = SubSeq(@, 1, i - 1) \o SubSeq(@, i + 1, Len(@))],
         "none", NoEntry, FALSE,
         <<Called("resolve", NoEntry, "", q.waiters[i].consumer)>>)

\* Array.prototype.sort((a, b) => a.priority - b.priority): a stable sort
RECURSIVE sortByPriority(_)
sortByPriority(entries) ==
    IF entries = <<>>
    THEN <<>>
    ELSE LET sorted == sortByPriority(SubSeq(entries, 1, Len(entries) - 1))
             last == entries[Len(entries)]
             before == SelectSeq(sorted, LAMBDA e : e.priority <= last.priority)
             after == SelectSeq(sorted, LAMBDA e : e.priority > last.priority)
         IN  before \o <<last>> \o after

\* for (const entry of queue) super.tryEnqueue(entry)
RECURSIVE reEnqueue(_, _)
reEnqueue(r, entries) ==
    IF entries = <<>>
    THEN r
    ELSE LET next == tryEnqueue(r.q, Head(entries))
         IN  reEnqueue([next EXCEPT !.calls = r.calls \o @], Tail(entries))

\* an enqueuePriority that leaves the entry where enqueue() has put it
enqueuePriority_appending(q, item, priority) ==
    BoundedQueue_enqueue(q, [item |-> item, priority |-> priority])

\* enqueuePriority(item, priority)
enqueuePriority(q, item, priority) ==
    LET result == BoundedQueue_enqueue(q, [item |-> item, priority |-> priority])
    IN  IF result.threw \/ result.returned # "true"
        THEN result
        ELSE LET queue == sortByPriority(result.q.queue)
                 cleared == [clear(result.q) EXCEPT !.calls = result.calls]
             IN  [reEnqueue(cleared, queue) EXCEPT !.returned = "true"]

\* dequeueItem(): this.dequeue()?.item
dequeueItem(q) == dequeue(q)

(***************************************************************************)
(* Calls on a queue.                                                       *)
(***************************************************************************)
\* the capacities a queue of the model is configured with
Capacities == {0, 1, 2, 5}
\* the items are 1..MaxItems, the priorities 1..MaxPriority
MaxItems == 2
MaxPriority == 2
\* the lifetime counters of a queue add up to at most MaxQueueOps, those
\* of a priority queue, which enqueues every entry again on each insertion,
\* to at most MaxPriorityOps
MaxQueueOps == 8
MaxPriorityOps == 24
\* the consumers that call dequeueAsync() are 1..MaxConsumers
MaxConsumers == 2

QueueConfigs ==
    [maxSize : Capacities, overflowStrategy : OverflowStrategy]

Entries(q) ==
    IF q.variant = "PriorityBoundedQueue"
    THEN [item : 1..MaxItems, priority : 1..MaxPriority]
    ELSE [item : 1..MaxItems, priority : {0}]

Counted(q) == q.totalEnqueued + q.totalDequeued + q.totalDropped + q.totalRejected

Outcome(op, given, r) ==
    [op |-> op, given |-> given, returned |-> r.returned, entry |-> r.entry,
     threw |-> r.threw, calls |-> r.calls]

\* the water-mark callbacks among the callbacks of a call
waterCalls(calls) ==
    SelectSeq(calls, LAMBDA c : c.callback \in {"onHighWaterMark", "onLowWaterMark"})

QueueCall(op, given, r) ==
    /\ Counted(r.q) <= IF bq.variant = "PriorityBoundedQueue"
                       THEN MaxPriorityOps
                       ELSE MaxQueueOps
    /\ bq' = r.q
    /\ bqOut' = Outcome(op, given, r)
    /\ bqWater' = IF waterCalls(r.calls) = <<>>
                  THEN bqWater
                  ELSE waterCalls(r.calls)[Len(waterCalls(r.calls))].callback
    /\ UNCHANGED exceptQueue

EnqueueCall ==
    /\ bq.variant # "PriorityBoundedQueue"
    /\ \E item \in Entries(bq) : QueueCall("enqueue", item, enqueue(bq, item))

TryEnqueueCall ==
    /\ bq.variant # "PriorityBoundedQueue"
    /\ \E item \in Entries(bq) : QueueCall("tryEnqueue", item, tryEnqueue(bq, item))

DequeueCall ==
    /\ bq.variant # "PriorityBoundedQueue"
    /\ QueueCall("dequeue", NoEntry, dequeue(bq))

ClearCall ==
    QueueCall("clear", NoEntry, clear(bq))

DequeueAsyncCall ==
    /\ bq.variant = "AsyncBoundedQueue"
    /\ \E consumer \in 1..MaxConsumers, timed \in BOOLEAN :
          /\ \A i \in DOMAIN bq.waiters : bq.waiters[i].consumer # consumer
          /\ QueueCall("dequeueAsync", NoEntry, dequeueAsync(bq, consumer, timed))

WaiterTimeout ==
    \E i \in DOMAIN bq.waiters :
        /\ bq.waiters[i].timed
        /\ QueueCall("timeout", NoEntry, waiterTimedOut(bq, i))

EnqueuePriorityCall ==
    /\ bq.variant = "PriorityBoundedQueue"
    /\ \E item \in Entries(bq) :
          QueueCall("enqueuePriority", item,
                    enqueuePriority(bq, item.item, item.priority))

DequeueItemCall ==
    /\ bq.variant = "PriorityBoundedQueue"
    /\ QueueCall("dequeueItem", NoEntry, dequeueItem(bq))

(***************************************************************************)
(* Statements about the queues.                                            *)
(***************************************************************************)
\* the step is a call that runs BoundedQueue.enqueue() on the given entry
\* and lets what it throws through
Enqueues ==
    \/ bqOut'.op = "enqueue" /\ bq.waiters = <<>>
    \/ bqOut'.op = "enqueuePriority"

\* the callbacks of the last call that are onDrop
dropCalls(calls) == SelectSeq(calls, LAMBDA c : c.callback = "onDrop")

C27_DropOldestKeepsSize ==
    [][(/\ bqOut'.op = "enqueue"
        /\ bq.waiters = <<>>
        /\ bq.config.overflowStrategy = "drop-oldest"
        /\ size(bq) = bq.config.maxSize)
       => /\ ~bqOut'.threw
          /\ size(bq') = bq.config.maxSize
          /\ Len(dropCalls(bqOut'.calls)) = 1
          /\ dropCalls(bqOut'.calls)[1].entry = Head(bq.queue)
          /\ bq'.queue = Append(Tail(bq.queue), bqOut'.given)]_vars

\* the same for the capacities of 1 and more
DropOldestKeepsSizeFromOne ==
    [][(/\ bqOut'.op = "enqueue"
        /\ bq.waiters = <<>>
        /\ bq.config.overflowStrategy = "drop-oldest"
        /\ bq.config.maxSize >= 1
        /\ size(bq) = bq.config.maxSize)
       => /\ ~bqOut'.threw
          /\ size(bq') = bq.config.maxSize
          /\ Len(dropCalls(bqOut'.calls)) = 1
          /\ dropCalls(bqOut'.calls)[1].entry = Head(bq.queue)
          /\ bq'.queue = Append(Tail(bq.queue), bqOut'.given)]_vars

\* C28: whatever the variant, the overflow strategy and the capacity (0
\* included), a queue never stores more entries than its capacity.
C28_SizeWithinCapacity == size(bq) <= bq.config.maxSize

\* the same for the capacities of 1 and more, and for the other strategies
SizeWithinCapacityFromOne ==
    (bq.config.maxSize >= 1 \/ bq.config.overflowStrategy # "drop-oldest")
        => size(bq) <= bq.config.maxSize

\* the water-mark callbacks ws, invoked after `last`, take turns, a
\* low-water callback coming after a high-water one only
RECURSIVE Alternate(_, _)
Alternate(last, ws) ==
    \/ ws = <<>>
    \/ /\ Head(ws).callback # last
       /\ Head(ws).callback = "onLowWaterMark" => last = "onHighWaterMark"
       /\ Alternate(Head(ws).callback, Tail(ws))

\* C29: for every capacity and variant, over enqueue, dequeue, clear and
\* priority insertions, the high-water callback fires when the size rises
\* to 80% of the capacity and not again before the low-water callback,
\* which fires when the size has then dropped below 20% of the capacity:
\* the two callbacks alternate and every crossing fires its callback.
C29_WaterMarksAlternate ==
    [][LET ws == waterCalls(bqOut'.calls)
           C == bq.config.maxSize
           fires(callback) == \E i \in DOMAIN ws : ws[i].callback = callback
       IN  /\ Alternate(bqWater, ws)
           /\ fires("onHighWaterMark") => 10 * size(bq') >= 8 * C
           /\ (/\ bqWater # "onHighWaterMark"
               /\ 10 * size(bq) < 8 * C
               /\ 10 * size(bq') >= 8 * C) => fires("onHighWaterMark")
           /\ (/\ bqWater = "onHighWaterMark"
               /\ 10 * size(bq') < 2 * C) => fires("onLowWaterMark")]_vars

\* what the code keeps of it: with a capacity of 5 or more the same holds
\* of the calls other than clear() and enqueuePriority(), as long as
\* neither has made the flag forget the last callback
HysteresisFromFive ==
    [][(/\ bq.config.maxSize >= 5
        /\ bqOut'.op \notin {"clear", "enqueuePriority"}
        /\ bq.wasAboveHighWaterMark = (bqWater = "onHighWaterMark"))
       => LET ws == waterCalls(bqOut'.calls)
              C == bq.config.maxSize
              fires(callback) == \E i \in DOMAIN ws : ws[i].callback = callback
          IN  /\ Alternate(bqWater, ws)
              /\ fires("onHighWaterMark") => 10 * size(bq') >= 8 * C
              /\ (/\ bqWater # "onHighWaterMark"
                  /\ 10 * size(bq) < 8 * C
                  /\ 10 * size(bq') >= 8 * C) => fires("onHighWaterMark")
              /\ (/\ bqWater = "onHighWaterMark"
                  /\ 10 * size(bq') < 2 * C) => fires("onLowWaterMark")
              /\ bq'.wasAboveHighWaterMark = (bqWater' = "onHighWaterMark")]_vars

\* C30: an enqueue on an asynchronous queue with waiting consumers hands
\* the entry to the consumer that has waited longest and leaves the stored
\* entries alone; an entry is stored only when no consumer waits, so that
\* waiting consumers and stored entries never coexist.
C30_WaitersAreServedFirst ==
    /\ [](bq.waiters # <<>> => bq.queue = <<>>)
    /\ [][/\ (bqOut'.op \in {"enqueue", "tryEnqueue"} /\ bq.waiters # <<>>)
              => (/\ bq'.queue = bq.queue
                  /\ bq'.waiters = Tail(bq.waiters)
                  /\ bqOut'.calls =
                       <<Called("resolve", bqOut'.given, "", Head(bq.waiters).consumer)>>
                  /\ bqOut'.returned = "true")
          /\ (size(bq') > size(bq) => bq.waiters = <<>>)]_vars

\* an entry has gone to the first of two waiting consumers
C30_Witness ==
    /\ bqOut.op = "enqueue"
    /\ bq.variant = "AsyncBoundedQueue"
    /\ Len(bqOut.calls) = 1
    /\ bqOut.calls[1].callback = "resolve"
    /\ bqOut.calls[1].entry = bqOut.given
    /\ bq.waiters # <<>>
    /\ bq.queue = <<>>

\* the entries of a sequence are in the order of their priority values
InPriorityOrder(entries) ==
    \A i, j \in DOMAIN entries : i < j => entries[i].priority <= entries[j].priority

\* entry e stored in a queue that holds `entries`: behind the entries whose
\* priority value is its own or lower, ahead of the others
StoredBehindItsEquals(entries, e) ==
    LET ahead == SelectSeq(entries, LAMBDA x : x.priority <= e.priority)
    IN  ahead \o <<e>> \o SubSeq(entries, Len(ahead) + 1, Len(entries))

\* C31: the entries of a priority queue are stored in the order of their
\* priority values; dequeueItem removes and returns the first of them, whose
\* priority value is the lowest stored; an enqueuePriority that stores its
\* entry puts it behind the stored entries of the same priority and changes
\* nothing else of what is stored, except for the entry that a full
\* drop-oldest queue drops to make room.
C31_LowestPriorityFirst ==
    /\ [](bq.variant = "PriorityBoundedQueue" => InPriorityOrder(bq.queue))
    /\ [][/\ (bqOut'.op = "dequeueItem" /\ bq.queue # <<>>)
             => (/\ bqOut'.entry = Head(bq.queue)
                 /\ \A i \in DOMAIN bq.queue :
                       bqOut'.entry.priority <= bq.queue[i].priority
                 /\ bq'.queue = Tail(bq.queue))
          /\ (bqOut'.op = "dequeueItem" /\ bq.queue = <<>>)
             => (bqOut'.returned = "undefined" /\ bq'.queue = <<>>)
          /\ (bqOut'.op = "enqueuePriority" /\ bqOut'.returned = "true")
             => (bq'.queue =
                   StoredBehindItsEquals(
                       IF size(bq) >= bq.config.maxSize /\ bq.queue # <<>>
                       THEN Tail(bq.queue)
                       ELSE bq.queue,
                       bqOut'.given))
          /\ (bqOut'.op = "enqueuePriority" /\ bqOut'.returned # "true")
             => (bq'.queue = bq.queue)]_vars

\* dequeueItem has returned the older of two entries of the lowest priority
\* value, ahead of an entry of a higher one that was stored before them
C31_Witness ==
    /\ bq.variant = "PriorityBoundedQueue"
    /\ bqOut.op = "dequeueItem"
    /\ bqOut.returned = "entry"
    /\ Len(bq.queue) >= 2
    /\ bq.queue[1].priority = bqOut.entry.priority
    /\ bq.queue[1].item # bqOut.entry.item
    /\ bq.queue[2].priority > bq.queue[1].priority
    /\ bq.totalDropped = 0

\* the promises of consumers that the last call resolved with an entry
handovers(calls) ==
    SelectSeq(calls, LAMBDA c : c.callback = "resolve" /\ c.entry # NoEntry)

\* C40: on an asynchronous queue an accepted entry is either stored or
\* handed to one consumer, the one that has waited longest, never both; a
\* stored entry leaves the queue only to the one consumer that dequeues it,
\* to onDrop when a full drop-oldest queue makes room, or to the caller of
\* clear(); the timeout of a waiting consumer resolves it with the empty
\* result and takes it, and only it, off the waiters, so that no later
\* enqueue hands it an entry.
C40_EveryEntryToOneConsumer ==
    /\ [](\A i, j \in DOMAIN bq.waiters :
              bq.waiters[i].consumer = bq.waiters[j].consumer => i = j)
    /\ [][bq.variant = "AsyncBoundedQueue"
            => /\ Len(handovers(bqOut'.calls)) <= 1
               /\ bqOut'.op = "timeout"
                    => (/\ bq'.queue = bq.queue
                        /\ handovers(bqOut'.calls) = <<>>
                        /\ \E i \in DOMAIN bq.waiters :
                              /\ bq.waiters[i].timed
                              /\ bqOut'.calls =
                                   <<Called("resolve", NoEntry, "",
                                            bq.waiters[i].consumer)>>
                              /\ bq'.waiters = SubSeq(bq.waiters, 1, i - 1)
                                                 \o SubSeq(bq.waiters, i + 1,
                                                           Len(bq.waiters))
                              /\ \A j \in DOMAIN bq'.waiters :
                                    bq'.waiters[j].consumer # bq.waiters[i].consumer)
               /\ (bqOut'.op \in {"enqueue", "tryEnqueue"} /\ bqOut'.returned = "true")
                    => \/ /\ bq.waiters # <<>>
                          /\ handovers(bqOut'.calls) =
                               <<Called("resolve", bqOut'.given, "",
                                        Head(bq.waiters).consumer)>>
                          /\ bq'.queue = bq.queue
                          /\ bq'.waiters = Tail(bq.waiters)
                       \/ /\ bq.waiters = <<>>
                          /\ handovers(bqOut'.calls) = <<>>
                          /\ \/ bq'.queue = Append(bq.queue, bqOut'.given)
                             \/ /\ bq.queue # <<>>
                                /\ bq'.queue = Append(Tail(bq.queue), bqOut'.given)
                                /\ dropCalls(bqOut'.calls) =
                                     <<Called("onDrop", Head(bq.queue),
                                              "overflow-oldest", Null)>>
               /\ (bqOut'.op \in {"enqueue", "tryEnqueue"} /\ bqOut'.returned # "true")
                    => (/\ handovers(bqOut'.calls) = <<>>
                        /\ bq'.queue = bq.queue
                        /\ bq'.waiters = bq.waiters)
               /\ (bqOut'.op = "dequeueAsync" /\ bq.queue # <<>>)
                    => (/\ bq'.queue = Tail(bq.queue)
                        /\ Len(handovers(bqOut'.calls)) = 1
                        /\ handovers(bqOut'.calls)[1].entry = Head(bq.queue)
                        /\ bq'.waiters = bq.waiters)
               /\ (bqOut'.op = "dequeueAsync" /\ bq.queue = <<>>)
                    => (/\ bq'.queue = <<>>
                        /\ bqOut'.calls = <<>>
                        /\ Len(bq'.waiters) = Len(bq.waiters) + 1
                        /\ SubSeq(bq'.waiters, 1, Len(bq.waiters)) = bq.waiters)
               /\ bqOut'.op = "dequeue"
                    => (/\ handovers(bqOut'.calls) = <<>>
                        /\ bq.queue # <<>>
                              => (bqOut'.entry = Head(bq.queue)
                                    /\ bq'.queue = Tail(bq.queue)))]_vars

\* the timeout of one consumer has resolved it with the empty result while
\* another consumer goes on waiting
C40_Witness ==
    /\ bq.variant = "AsyncBoundedQueue"
    /\ bqOut.op = "timeout"
    /\ Len(bqOut.calls) = 1
    /\ bqOut.calls[1].entry = NoEntry
    /\ Len(bq.waiters) = 1
    /\ bq.waiters[1].consumer # bqOut.calls[1].arg

(***************************************************************************)
(* withTimeout (src/src/resilience/timeout-wrapper.ts)                     *)
(*                                                                         *)
(* One call of withTimeout(promise, config).  The promise is the operation *)
(* in flight; it may have settled before the call.  An action is one turn  *)
(* of the event loop with the microtasks it makes runnable: the            *)
(* continuation of the await and the finally block run in the turn that    *)
(* settles the race, before any timer callback.                            *)
(***************************************************************************)
\* timeoutMs is drawn from 1..MaxGuardTimeout
MaxGuardTimeout == 2

\* what an operation resolves with
Results == {"r1", "r2"}

\* a promise: pending, or settled with a value or a reason
PendingPromise == [state |-> "pending", value |-> ""]

\* what a callback of the config does when it is invoked
OnTimeoutKinds == {"undefined", "returns", "throws"}
CleanupKinds == {"undefined", "returns", "throws", "rejects"}

\* the configs withTimeout is called with; name "undefined" is a config
\* without a name
TimeoutConfigs ==
    [timeoutMs : 1..MaxGuardTimeout, name : {"undefined", "op"},
     onTimeout : OnTimeoutKinds, cleanup : CleanupKinds]

\* const { timeoutMs, name = 'unknown', onTimeout, cleanup } = opts
opts(config) ==
    [config EXCEPT !.name = IF config.name = "undefined" THEN "unknown" ELSE @]

\* the state before withTimeout is called
NoGuard ==
    [called |-> FALSE, promise |-> PendingPromise,
     opts |-> opts(CHOOSE c \in TimeoutConfigs : TRUE),
     startedAt |-> Null, timeoutId |-> Null, resolved |-> FALSE]

Awaiting ==
    [kind |-> "pending", value |-> "", operationName |-> "", timeoutMs |-> Null,
     startedAt |-> Null]

NoCalls == [onTimeout |-> 0, cleanup |-> 0, uncaught |-> 0]

\* new TimeoutError(name, timeoutMs, startedAt)
TimeoutError(name, timeoutMs, startedAt) ==
    [kind |-> "TimeoutError", value |-> "", operationName |-> name,
     timeoutMs |-> timeoutMs, startedAt |-> startedAt]

\* the guard g is [tw, outcome, calls]: the call, what it has settled with
\* and the history of its callbacks
Guard == [tw |-> tw, outcome |-> twOutcome, calls |-> twCalls]

\* withTimeout up to its await: the locals and the timer
withTimeout(g, config, t) ==
    [g EXCEPT !.tw.called = TRUE,
              !.tw.opts = opts(config),
              !.tw.startedAt = t,
              !.tw.timeoutId = t + config.timeoutMs,
              !.tw.resolved = FALSE]

\* withTimeout after its await when the promise won the race: the result is
\* returned or the reason thrown, and the finally block clears the timer
raceSettled(g) ==
    IF ~g.tw.called \/ g.outcome.kind # "pending" \/ g.tw.promise.state = "pending"
    THEN g
    ELSE [g EXCEPT !.tw.resolved = (g.tw.promise.state = "resolved"),
                   !.tw.timeoutId = Null,
                   !.outcome = [Awaiting EXCEPT
                                  !.kind = IF g.tw.promise.state = "resolved"
                                           THEN "result" ELSE "error",
                                  !.value = g.tw.promise.value]]

\* the rest of the timer callback once onTimeout has returned: cleanup()
\* is called inside Promise.resolve(...), so that an exception it throws
\* leaves the callback before reject() is reached; a rejection of the
\* promise it returns is caught
timedOut(g) ==
    LET cleaned == IF g.tw.opts.cleanup = "undefined" THEN g
                   ELSE [g EXCEPT !.calls.cleanup = @ + 1]
    IN  IF g.tw.opts.cleanup = "throws"
        THEN [cleaned EXCEPT !.calls.uncaught = @ + 1]
        ELSE [cleaned EXCEPT
                !.outcome = IF g.outcome.kind = "pending"
                            THEN TimeoutError(g.tw.opts.name, g.tw.opts.timeoutMs,
                                              g.tw.startedAt)
                            ELSE @]

\* the callback of the timer; the timer is no longer pending
onTimer(g) ==
    LET fired == [g EXCEPT !.tw.timeoutId = Null]
    IN  IF fired.tw.resolved THEN fired
        ELSE IF fired.tw.opts.onTimeout = "undefined" THEN timedOut(fired)
        ELSE IF fired.tw.opts.onTimeout = "throws"
        THEN [fired EXCEPT !.calls.onTimeout = @ + 1, !.calls.uncaught = @ + 1]
        ELSE timedOut([fired EXCEPT !.calls.onTimeout = @ + 1])

CommitGuard(g) ==
    /\ tw' = g.tw
    /\ twOutcome' = g.outcome
    /\ twCalls' = g.calls
    /\ UNCHANGED <<now, exceptTimeout>>

(***************************************************************************)
(* Turns of the event loop around one call of withTimeout.                 *)
(***************************************************************************)
\* the operation resolves with v or rejects; a call that awaits it resumes
OperationSettles ==
    /\ tw.promise.state = "pending"
    /\ \E p \in [state : {"resolved"}, value : Results]
                  \cup [state : {"rejected"}, value : {"Error"}] :
          CommitGuard(raceSettled([Guard EXCEPT !.tw.promise = p]))

\* a caller invokes withTimeout(promise, config); when the promise has
\* settled already the race is settled in the microtasks of this turn
WithTimeoutCall ==
    /\ ~tw.called
    /\ \E config \in TimeoutConfigs :
          CommitGuard(raceSettled(withTimeout(Guard, config, now)))

\* the timer of the call expires
TimeoutFires ==
    /\ tw.timeoutId # Null
    /\ now >= tw.timeoutId
    /\ CommitGuard(onTimer(Guard))

(***************************************************************************)
(* Statements about withTimeout.                                           *)
(***************************************************************************)
\* what a settled call has settled with: the value or the reason of the
\* operation, unchanged, or a TimeoutError with the name, the duration and
\* the start time of the call; its timer is not pending
SettledAsItShould ==
    /\ twOutcome.kind # "pending" => tw.called /\ tw.timeoutId = Null
    /\ twOutcome.kind = "result"
          => tw.promise = [state |-> "resolved", value |-> twOutcome.value]
    /\ twOutcome.kind = "error"
          => tw.promise = [state |-> "rejected", value |-> twOutcome.value]
    /\ twOutcome.kind = "TimeoutError"
          => twOutcome = TimeoutError(tw.opts.name, tw.opts.timeoutMs, tw.startedAt)

\* a call whose operation settles while the timer is pending settles with
\* what the operation settled with, in that turn
SettlesWithTheOperation ==
    (tw.called /\ tw.timeoutId # Null /\ tw.promise.state = "pending"
        /\ tw'.promise.state # "pending")
      => (/\ twOutcome'.kind = (IF tw'.promise.state = "resolved"
                                THEN "result" ELSE "error")
          /\ twOutcome'.value = tw'.promise.value)

\* C34: a call of withTimeout settles with the operation's result or reason
\* when the operation settles before the timer expires, and with a
\* TimeoutError carrying name, timeoutMs and startedAt once the timer has
\* expired; it settles once, and when it has settled its timer is not
\* pending.
C34_ResultOrTimeout ==
    /\ [](SettledAsItShould)
    /\ []((tw.called /\ tw.timeoutId = Null) => twOutcome.kind # "pending")
    /\ [][/\ SettlesWithTheOperation
          /\ twOutcome.kind # "pending" => twOutcome' = twOutcome]_vars

\* what holds of C34: the same, for a call whose timer callback has let no
\* exception escape
ResultOrTimeoutUnlessCallbackThrows ==
    /\ [](SettledAsItShould)
    /\ []((tw.called /\ tw.timeoutId = Null /\ twCalls.uncaught = 0)
             => twOutcome.kind # "pending")
    /\ [][/\ SettlesWithTheOperation
          /\ twOutcome.kind # "pending" => twOutcome' = twOutcome]_vars

\* onTimeout and cleanup have run at most once, and a callback runs only in a
\* turn that finds the operation pending
CallbacksOnExpiryOnly ==
    /\ [](twCalls.onTimeout <= 1 /\ twCalls.cleanup <= 1)
    /\ [][twCalls' # twCalls
             => (tw.promise.state = "pending" /\ tw'.promise.state = "pending"
                 /\ twOutcome.kind = "pending")]_vars

\* C35: onTimeout and cleanup run at most once and only when the call times
\* out, never when the operation has settled first; when cleanup has run,
\* whatever it did, the call settles with the TimeoutError.
C35_CleanupFailureIsSwallowed ==
    /\ CallbacksOnExpiryOnly
    /\ [](twOutcome.kind \in {"result", "error"}
             => twCalls.onTimeout = 0 /\ twCalls.cleanup = 0)
    /\ [][twCalls'.cleanup > twCalls.cleanup
             => (twOutcome'.kind = "TimeoutError" /\ twCalls'.uncaught = 0)]_vars

\* what holds of C35: the callbacks run at most once and only at the expiry
\* of the timer with the operation pending, and a cleanup that returns, or
\* that returns a promise that rejects, leaves the TimeoutError to the caller
CleanupRejectionIsSwallowed ==
    /\ CallbacksOnExpiryOnly
    /\ [][(twCalls'.cleanup > twCalls.cleanup /\ tw.opts.cleanup # "throws")
             => (twOutcome'.kind = "TimeoutError"
                 /\ twCalls'.uncaught = twCalls.uncaught)]_vars

(***************************************************************************)
(* Statements about the supervisor over a worker that fails.               *)
(***************************************************************************)
\* the turn has made a recovery decision
SupervisorDecided == now' = now /\ sup'.lastRecoveryDecisionAt = now /\ ai'.history # ai.history

\* the turn has made a recovery decision to give up
SupervisorGaveUp ==
    /\ SupervisorDecided
    /\ \E i \in DOMAIN sup'.recoveryDecisions :
          /\ sup'.recoveryDecisions[i].action = "give-up"
          /\ sup'.recoveryDecisions[i].timestamp = now

\* the turn has counted a crash that takes the count above the limit
CrashOverTheLimit ==
    /\ sup'.consecutiveCrashes > sup.consecutiveCrashes
    /\ sup'.consecutiveCrashes > sup.config.maxConsecutiveCrashes

\* C36: when a worker exits before it has reported ready and the engine
\* records the failure, the record carries uptime 0.
C36_UptimeOfFailedInstance ==
    [][\A p \in Pids :
          (/\ procs[p].status = "alive"
           /\ procs[p].waiter # "none"
           /\ procs'[p].status # "alive"
           /\ ai'.history # ai.history)
             => ai'.history[Len(ai'.history)].uptime = 0]_vars

\* C22: any two recovery decisions the supervisor has made are at least
\* recoveryDecisionCooldownMs apart, the decisions on the 'crashed' and the
\* 'max-restarts' event of one exit included.
C22_DecisionsAreACooldownApart ==
    \A i, j \in DOMAIN sup.recoveryDecisions :
        i < j => sup.recoveryDecisions[j].timestamp - sup.recoveryDecisions[i].timestamp
                     >= sup.config.recoveryDecisionCooldownMs

\* what holds of the cooldown: a turn makes a decision only when the last
\* decision of an earlier turn is at least the cooldown old
DecisionsOfTwoTurnsAreApart ==
    [][(SupervisorDecided /\ sup.lastRecoveryDecisionAt # Null)
          => (now - sup.lastRecoveryDecisionAt
                 >= sup.config.recoveryDecisionCooldownMs)]_vars

\* C23: once the engine has decided to give up, the supervisor has asked
\* for shutdown, has emitted 'failed', and is failed when the shutdown is
\* over, whatever maxConsecutiveCrashes is.
C23_GiveUpEndsFailed ==
    [][SupervisorGaveUp
          => /\ sup'.shutdownRequested
             /\ sup'.state = "failed"
             /\ Emitted(supEmitted', "failed")]_vars

\* what holds of give-up: the supervisor shuts down, and it ends failed with
\* 'failed' emitted when the crash count has reached the limit
GiveUpAtTheLimitEndsFailed ==
    [][SupervisorGaveUp
          => /\ sup'.shutdownRequested
             /\ sup'.state \in {"stopped", "failed"}
             /\ (sup'.consecutiveCrashes >= sup.config.maxConsecutiveCrashes)
                   => (sup'.state = "failed" /\ Emitted(supEmitted', "failed"))]_vars

\* C24: when no shutdown has been requested, the crash that takes the count
\* of consecutive crashes above maxConsecutiveCrashes leaves the supervisor
\* failed with 'failed' emitted, then or before, also when the crash comes
\* inside the cooldown of a decision.
C24_FailedByTheCrashOverTheLimit ==
    [][(CrashOverTheLimit /\ ~sup'.shutdownRequested)
          => /\ sup'.state = "failed"
             /\ supFailed']_vars

\* what holds of the limit: a crash outside the cooldown that finds the
\* count at the limit or above leaves the supervisor failed and emits
\* 'failed'
FailedByTheCrashOutsideCooldown ==
    [][(SupervisorDecided
           /\ sup'.consecutiveCrashes >= sup.config.maxConsecutiveCrashes)
          => /\ sup'.state = "failed"
             /\ Emitted(supEmitted', "failed")]_vars

\* C25: the state of the supervisor is failed only from running, and a
\* failed supervisor stays failed, whatever is called on it; the other
\* states follow the cycle stopped, starting, running, stopping, stopped (a
\* turn may take several steps of it).
C25_StateCycle ==
    [][/\ sup.state = "failed" => sup'.state = "failed"
       /\ (sup'.state = "failed" /\ sup.state # "failed") => sup.state = "running"
       /\ sup'.state \in {"stopped", "starting", "running", "stopping", "failed"}]_vars

(***************************************************************************)
(* Initial states and specifications.                                      *)
(***************************************************************************)
InitBreakerVars ==
    /\ cbInFlight = 0
    /\ cbOutcome = "none"
    /\ cbFailRun = 0
    /\ cbProbeRun = 0

InitRegistryVars ==
    /\ circuitRegistry = [n \in Names |-> NoCircuit]
    /\ circuitBreakers = [n \in Names |-> NoCircuit]
    /\ regInFlight = [n \in Names |-> 0]
    /\ rcCalls = [i \in Slots |-> IdleCall]
    /\ rcOutcome = [path |-> "none", name |-> "", outcome |-> "none"]

InitWorkerVars ==
    /\ wm = WorkerManager
    /\ procs = [p \in Pids |-> NoProcess]
    /\ timers = {}
    /\ stops = {}
    /\ emitted = <<>>
    /\ stopRequested = FALSE

InitRecoveryVars ==
    /\ aiContext = NoContext
    /\ aiDecision = NoDecision

\* the engine a Supervisor builds: new AIRecovery({ enabled }), no apiKey
SupervisorRecovery ==
    AIRecovery(CHOOSE config \in AIRecoveryConfigs : ~config.apiKey)

InitSupervisorVars ==
    /\ sup = Supervisor
    /\ supPending = NonePending
    /\ supEmitted = <<>>
    /\ supLastCall = "none"
    /\ supFailed = FALSE

\* the other components keep a queue that nothing is put into
InitQueueVars ==
    /\ bq = BoundedQueue("BoundedQueue", [maxSize |-> 1, overflowStrategy |-> "reject"])
    /\ bqOut = NoOutcome
    /\ bqWater = "none"

InitTimeoutVars ==
    /\ tw = NoGuard
    /\ twOutcome = Awaiting
    /\ twCalls = NoCalls

InitHeartbeatVars ==
    /\ hbFired = NoneFired
    /\ hbDeadRun = 0
    /\ hbLastArrival = Null

InitBreaker ==
    /\ now = 1
    /\ InitTimeoutVars
    /\ \E config \in BreakerConfigs : cb = CircuitBreaker(config)
    /\ InitBreakerVars
    /\ InitRegistryVars
    /\ hb = HeartbeatMonitor([intervalMs |-> 1, timeoutMs |-> 1, missedThreshold |-> 1])
    /\ InitHeartbeatVars
    /\ InitWorkerVars
    /\ ai = SupervisorRecovery
    /\ InitRecoveryVars
    /\ InitSupervisorVars
    /\ InitQueueVars

NextBreaker ==
    \/ Tick
    \/ IsAllowedCall
    \/ ExecuteBegin
    \/ ExecuteResolve
    \/ ExecuteReject
    \/ RecordSuccessCall
    \/ RecordFailureCall
    \/ ForceStateCall
    \/ ResetCall

SpecBreaker == InitBreaker /\ [][NextBreaker]_vars

InitRegistry ==
    /\ now = 1
    /\ InitTimeoutVars
    /\ cb = CircuitBreaker(NamedConfig)
    /\ InitBreakerVars
    /\ InitRegistryVars
    /\ hb = HeartbeatMonitor([intervalMs |-> 1, timeoutMs |-> 1, missedThreshold |-> 1])
    /\ InitHeartbeatVars
    /\ InitWorkerVars
    /\ ai = SupervisorRecovery
    /\ InitRecoveryVars
    /\ InitSupervisorVars
    /\ InitQueueVars

NextRegistry ==
    \/ Tick
    \/ GetOrCreateCircuitCall
    \/ RegistryExecuteBegin
    \/ RegistryExecuteResolve
    \/ RegistryExecuteReject
    \/ ResilientCallBegin
    \/ ResilientCallResolve
    \/ ResilientCallReject
    \/ ResilientCallRetry

SpecRegistry == InitRegistry /\ [][NextRegistry]_vars

InitHeartbeat ==
    /\ now = 1
    /\ InitTimeoutVars
    /\ cb = CircuitBreaker(NamedConfig)
    /\ InitBreakerVars
    /\ InitRegistryVars
    /\ \E config \in HeartbeatConfigs : hb = HeartbeatMonitor(config)
    /\ InitHeartbeatVars
    /\ InitWorkerVars
    /\ ai = SupervisorRecovery
    /\ InitRecoveryVars
    /\ InitSupervisorVars
    /\ InitQueueVars

NextHeartbeat ==
    \/ Tick
    \/ HeartbeatStart
    \/ HeartbeatStop
    \/ RecordHeartbeatCall
    \/ HeartbeatCheck
    \/ HeartbeatReset

SpecHeartbeat == InitHeartbeat /\ [][NextHeartbeat]_vars

InitWorker ==
    /\ now = 1
    /\ InitTimeoutVars
    /\ cb = CircuitBreaker(NamedConfig)
    /\ InitBreakerVars
    /\ InitRegistryVars
    /\ hb = HeartbeatMonitor(WorkerConfig.heartbeat)
    /\ InitHeartbeatVars
    /\ InitWorkerVars
    /\ ai = SupervisorRecovery
    /\ InitRecoveryVars
    /\ InitSupervisorVars
    /\ InitQueueVars

NextWorker ==
    \/ Tick
    \/ StartCall
    \/ StopCall
    \/ RestartCall
    \/ WorkerExit
    \/ WorkerError
    \/ WorkerReady
    \/ WorkerHeartbeat
    \/ StartupTimeout
    \/ RestartTimerFire
    \/ StopTimeout
    \/ WorkerHeartbeatCheck

SpecWorker == InitWorker /\ [][NextWorker]_vars

\* A manager whose caller only uses start() and stop() and whose worker
\* sends no heartbeats, with an event loop that runs the callback of every
\* timer that is due and lets time pass.
NextCrashLoop ==
    \/ Tick
    \/ StartCall
    \/ StopCall
    \/ WorkerExit
    \/ WorkerError
    \/ WorkerReady
    \/ StartupTimeout
    \/ RestartTimerFire
    \/ StopTimeout
    \/ WorkerHeartbeatCheck

SpecCrashLoop ==
    /\ InitWorker
    /\ [][NextCrashLoop]_vars
    /\ WF_vars(Tick)
    /\ WF_vars(StartupTimeout)
    /\ WF_vars(RestartTimerFire)
    /\ WF_vars(StopTimeout)
    /\ WF_vars(WorkerHeartbeatCheck)

\* An engine on its own: decide() and clearHistory() called at any time.
InitRecovery ==
    /\ now = 1
    /\ InitTimeoutVars
    /\ cb = CircuitBreaker(NamedConfig)
    /\ InitBreakerVars
    /\ InitRegistryVars
    /\ hb = HeartbeatMonitor(WorkerConfig.heartbeat)
    /\ InitHeartbeatVars
    /\ InitWorkerVars
    /\ \E config \in AIRecoveryConfigs : ai = AIRecovery(config)
    /\ InitRecoveryVars
    /\ InitSupervisorVars
    /\ InitQueueVars

NextRecovery ==
    \/ RecoveryTick
    \/ DecideCall
    \/ ClearHistoryCall

SpecRecovery == InitRecovery /\ [][NextRecovery]_vars

\* A supervisor over a worker that does not fail; the caller uses start()
\* and stop() of the supervisor and stop() of its manager
\* (getWorkerManager().stop()).
NextLifecycle ==
    \/ HealthyTick
    \/ SupervisorStartCall
    \/ SupervisorStopCall
    \/ StopCall
    \/ HealthyReady
    \/ HealthyExit
    \/ StopTimeout
    \/ WorkerHeartbeatCheck

SpecLifecycle == InitWorker /\ [][NextLifecycle]_vars

\* A supervisor over a worker that fails, with and without the recovery
\* engine; its caller starts it again when it has stopped or failed.
InitSupervision ==
    /\ now = 1
    /\ InitTimeoutVars
    /\ cb = CircuitBreaker(NamedConfig)
    /\ InitBreakerVars
    /\ InitRegistryVars
    /\ hb = HeartbeatMonitor(WorkerConfig.heartbeat)
    /\ InitHeartbeatVars
    /\ InitWorkerVars
    /\ ai = SupervisorRecovery
    /\ InitRecoveryVars
    /\ \E config \in SupervisorConfigs : sup = [Supervisor EXCEPT !.config = config]
    /\ supPending = NonePending
    /\ supEmitted = <<>>
    /\ supLastCall = "none"
    /\ supFailed = FALSE
    /\ InitQueueVars

NextSupervision ==
    \/ SupervisionTick
    \/ SupervisorStartAgain
    \/ HealthyReady
    \/ WorkerHeartbeat
    \/ SupervisedExit
    \/ SupervisedStartupTimeout
    \/ SupervisedRestartTimerFire
    \/ SupervisedHeartbeatCheck

SpecSupervision == InitSupervision /\ [][NextSupervision]_vars

\* A queue of any variant, capacity and overflow strategy, and its callers.
InitQueue ==
    /\ now = 1
    /\ InitTimeoutVars
    /\ cb = CircuitBreaker(NamedConfig)
    /\ InitBreakerVars
    /\ InitRegistryVars
    /\ hb = HeartbeatMonitor(WorkerConfig.heartbeat)
    /\ InitHeartbeatVars
    /\ InitWorkerVars
    /\ ai = SupervisorRecovery
    /\ InitRecoveryVars
    /\ InitSupervisorVars
    /\ \E variant \in QueueVariants, config \in QueueConfigs :
          bq = BoundedQueue(variant, config)
    /\ bqOut = NoOutcome
    /\ bqWater = "none"

NextQueue ==
    \/ EnqueueCall
    \/ TryEnqueueCall
    \/ DequeueCall
    \/ ClearCall
    \/ DequeueAsyncCall
    \/ WaiterTimeout
    \/ EnqueuePriorityCall
    \/ DequeueItemCall

SpecQueue == InitQueue /\ [][NextQueue]_vars

\* A call of withTimeout with any config, on an operation that settles at any
\* time or never.
InitTimeout ==
    /\ now = 1
    /\ InitTimeoutVars
    /\ cb = CircuitBreaker(NamedConfig)
    /\ InitBreakerVars
    /\ InitRegistryVars
    /\ hb = HeartbeatMonitor(WorkerConfig.heartbeat)
    /\ InitHeartbeatVars
    /\ InitWorkerVars
    /\ ai = SupervisorRecovery
    /\ InitRecoveryVars
    /\ InitSupervisorVars
    /\ InitQueueVars

NextTimeout ==
    \/ WithTimeoutCall
    \/ OperationSettles
    \/ TimeoutFires
    \/ Tick

SpecTimeout == InitTimeout /\ [][NextTimeout]_vars

=============================================================================
